---------------------------- MODULE Spec2Model ----------------------------
(***************************************************************************)
(* A model of go-netdicom's DIMSE layer: the DIMSE command codec and the   *)
(* P-DATA-TF command assembler of dimse.go, and the service user's C-STORE *)
(* request (runCStoreOnAssociation).                                       *)
(*                                                                         *)
(* Byte streams are sequences of numbers 0..255.  Strings are sequences of *)
(* character codes.  Command elements are Implicit VR Little Endian:       *)
(* group (2 bytes), element (2 bytes), value length (4 bytes), value.      *)
(***************************************************************************)
EXTENDS Integers, Sequences, FiniteSets, TLC

VARIABLES
    \* ---- codec (encodeDIMSEMessage / DecodeDIMSEMessage) ----
    libUnknownTag,  \* what the element library does with a tag outside its dictionary
    cPc,            \* "msg", "encoded", "tampered", "decoded"
    cMsg,           \* the DIMSE message handed to encodeDIMSEMessage
    cEnc,           \* result of encodeDIMSEMessage
    cWire,          \* the command bytes handed to DecodeDIMSEMessage
    cRemoved,       \* the element the peer left out of cWire (NoTag when none)
    cField,         \* the CommandField the peer wrote instead (0 when unchanged)
    cDec,           \* result of DecodeDIMSEMessage
    \* ---- assembler (addPDataTF) ----
    a,              \* the dimseCommandAssembler of the association
    aRes,           \* outcome of the last addPDataTF call
    aFed,           \* PDVs fed since the assembler was last empty (history)
    aPdu,           \* the items of the last P-DATA-TF handed to addPDataTF
    aCount,         \* number of PDVs fed so far on the association
    aCompleteAt,    \* index in aPdu of the fragment that completed the message (0: none)
    \* ---- service user (runCStoreOnAssociation) ----
    uPc,            \* "start", "waiting", "done", "panic"
    uIn,            \* the call's inputs
    uErr,           \* the error returned ("" for nil)
    upcallCh,       \* upcall channel: [q |-> events in flight, closed |-> BOOLEAN]
    downcallCh,     \* events sent on the downcall channel
    uTaken,         \* upcall events the call has consumed
    uErrArg,        \* the response the returned error is formatted from (NoMsg: none)
    uReturned,      \* what the earlier calls on the same channels returned
    \* ---- sample server (onCFind, onCMoveOrCGet) ----
    rPc,            \* the producer goroutine: "find", "loop", "close", "done", "panic"
    rIn,            \* the request: the files the server holds and the filters
    rMatches,       \* matches returned by findMatchingFiles
    rErr,           \* err returned by findMatchingFiles ("" for nil)
    rIdx,           \* matches the loop has sent
    rCh,            \* ch: [q |-> results in the buffer, closes |-> close(ch) calls]
    rRecv,          \* results the consumer has received
    rEnd,           \* the consumer has seen the end of the sequence
    \* ---- association: the two state machines, the client and the provider ----
    mState,         \* current state of each side's state machine
    mEnded,         \* the action each side's state machine ended with ("": running)
    mReleased,      \* times each side released its per-association resources
    mWire,          \* what is in flight to each side on the TCP connection
    mDown,          \* each side's queue of downcall events
    mUp,            \* the service user's upcall channel: [q, closed]
    mPc,            \* the client: where runClient is
    mClient,        \* the client's data set, and what Connect, C-STORE and Release returned
    mFaults,        \* each side's fault script, what is left of it
    mLast,          \* the last (state, event) a state machine reacted to
    mCalls,         \* shutdown calls made after runClient's own
    \* ---- sample server: the state guarded by server.mu ----
    kMu,            \* ss.mu: the callback holding it (0: unlocked)
    kPathSeq,       \* ss.pathSeq
    kDatasets,      \* the keys of ss.datasets
    kPc,            \* where each callback is
    kKind,          \* what each callback is: "store", "find" or "move"
    kPath,          \* onCStore's local variable path (NoPath before line 61)
    kStatus,        \* what onCStore returned ("": nothing yet)
    kCreated,       \* the paths os.Create was called on, in order
    kSeen,          \* the keys findMatchingFiles' range loop has produced
    kTorn           \* a range step ran while a map assignment was under way

codecVars == <<libUnknownTag, cPc, cMsg, cEnc, cWire, cRemoved, cField, cDec>>
asmVars   == <<a, aRes, aFed, aPdu, aCount, aCompleteAt>>
scuVars   == <<uPc, uIn, uErr, upcallCh, downcallCh, uTaken, uErrArg, uReturned>>
srvVars   == <<rPc, rIn, rMatches, rErr, rIdx, rCh, rRecv, rEnd>>
assocVars == <<mState, mEnded, mReleased, mWire, mDown, mUp, mPc, mClient, mFaults, mLast, mCalls>>
lockVars  == <<kMu, kPathSeq, kDatasets, kPc, kKind, kPath, kStatus, kCreated, kSeen, kTorn>>
vars      == <<codecVars, asmVars, scuVars, srvVars, assocVars, lockVars>>

-----------------------------------------------------------------------------
(* Bytes and strings *)

LE16(n) == <<n % 256, (n \div 256) % 256>>
LE32(n) == <<n % 256, (n \div 256) % 256, (n \div 65536) % 256, (n \div 16777216) % 256>>
FromLE16(b) == b[1] + 256 * b[2]
FromLE32(b) == b[1] + 256 * b[2] + 65536 * b[3] + 16777216 * b[4]

Slice(s, from, to) == IF from > to THEN <<>> ELSE SubSeq(s, from, to)

\* An odd-length string value is padded to even length.
PadEven(s, pad) == IF Len(s) % 2 = 1 THEN Append(s, pad) ELSE s

\* Trailing padding (NUL or space) is not part of a decoded string.
RECURSIVE StripPad(_)
StripPad(s) ==
    IF Len(s) > 0 /\ s[Len(s)] \in {0, 32}
    THEN StripPad(SubSeq(s, 1, Len(s) - 1))
    ELSE s

-----------------------------------------------------------------------------
(* Standard DIMSE tags, dimse.go var block *)

Tag(g, e) == [group |-> g, element |-> e]
NoTag == Tag(65535, 65535)

TagCommandGroupLength                   == Tag(0, 0)
TagCommandField                         == Tag(0, 256)      \* 0x100
TagAffectedSOPClassUID                  == Tag(0, 2)
TagMessageID                            == Tag(0, 272)      \* 0x0110
TagMessageIDBeingRespondedTo            == Tag(0, 288)      \* 0x0120
TagPriority                             == Tag(0, 1792)     \* 0x0700
TagCommandDataSetType                   == Tag(0, 2048)     \* 0x0800
TagStatus                               == Tag(0, 2304)     \* 0x0900
TagAffectedSOPInstanceUID               == Tag(0, 4096)     \* 0x1000
TagMoveOriginatorApplicationEntityTitle == Tag(0, 4144)     \* 0x1030
TagMoveOriginatorMessageID              == Tag(0, 4145)     \* 0x1031

\* The tags C_STORE_RQ.Encode writes the MoveOriginator fields under:
\* dicom.Tag{0, 1030} and dicom.Tag{0, 1031}, decimal literals.
EncodeTagMoveOriginatorApplicationEntityTitle == Tag(0, 1030)
EncodeTagMoveOriginatorMessageID              == Tag(0, 1031)

CommandDataSetTypeNull == 257
CommandFieldCStoreRq == 1
CommandFieldCStoreRsp == 32769

\* The value representation the element library's dictionary gives a group-0
\* tag; "UN" for a tag that is not in the dictionary.
TagVR(tag) ==
    IF tag = TagCommandGroupLength THEN "UL"
    ELSE IF tag \in {TagAffectedSOPClassUID, TagAffectedSOPInstanceUID} THEN "UI"
    ELSE IF tag = TagMoveOriginatorApplicationEntityTitle THEN "AE"
    ELSE IF tag \in {TagCommandField, TagMessageID, TagMessageIDBeingRespondedTo,
                     TagPriority, TagCommandDataSetType, TagStatus,
                     TagMoveOriginatorMessageID} THEN "US"
    ELSE "UN"


-----------------------------------------------------------------------------
(* The element encoder (dicom.Encoder, dicom.EncodeDataElement) *)

U16(n) == [kind |-> "u16", v |-> n]
U32(n) == [kind |-> "u32", v |-> n]
Str(s) == [kind |-> "str", v |-> s]

NewEncoder == [buf |-> <<>>, err |-> FALSE]

\* The bytes of one value: US and UL little endian, a string padded to even
\* length (NUL for a UID, space otherwise).
ValueBytes(vr, value) ==
    IF value.kind = "u16" THEN LE16(value.v)
    ELSE IF value.kind = "u32" THEN LE32(value.v)
    ELSE PadEven(value.v, IF vr = "UI" THEN 0 ELSE 32)

ElementBytes(tag, vb) ==
    LE16(tag.group) \o LE16(tag.element) \o LE32(Len(vb)) \o vb

\* dicom.EncodeDataElement with one value. The library takes the value
\* representation from its tag dictionary; a tag that is not in it either
\* fails the encoder or is written by the value's own type.
encodeDataElementWithSingleValue(e, tag, value) ==
    IF e.err THEN e
    ELSE IF TagVR(tag) = "UN" /\ libUnknownTag = "error" THEN [e EXCEPT !.err = TRUE]
    ELSE [e EXCEPT !.buf = e.buf \o ElementBytes(tag, ValueBytes(TagVR(tag), value))]

EncodeBytes(e, bytes) == IF e.err THEN e ELSE [e EXCEPT !.buf = e.buf \o bytes]

-----------------------------------------------------------------------------
(* DIMSE messages *)

NoMsg == [type |-> "nil"]

C_STORE_RQ(sopClass, messageID, priority, cdst, sopInstance, moAET, moMsgID) ==
    [type |-> "C_STORE_RQ",
     AffectedSOPClassUID |-> sopClass,
     MessageID |-> messageID,
     Priority |-> priority,
     CommandDataSetType |-> cdst,
     AffectedSOPInstanceUID |-> sopInstance,
     MoveOriginatorApplicationEntityTitle |-> moAET,
     MoveOriginatorMessageID |-> moMsgID]

C_STORE_RSP(sopClass, messageID, cdst, sopInstance, status) ==
    [type |-> "C_STORE_RSP",
     AffectedSOPClassUID |-> sopClass,
     MessageIDBeingRespondedTo |-> messageID,
     CommandDataSetType |-> cdst,
     AffectedSOPInstanceUID |-> sopInstance,
     Status |-> status]

\* C_STORE_RQ.Encode
C_STORE_RQ_Encode(e, v) ==
    LET e1 == encodeDataElementWithSingleValue(e, TagCommandField, U16(CommandFieldCStoreRq))
        e2 == encodeDataElementWithSingleValue(e1, TagAffectedSOPClassUID, Str(v.AffectedSOPClassUID))
        e3 == encodeDataElementWithSingleValue(e2, TagMessageID, U16(v.MessageID))
        e4 == encodeDataElementWithSingleValue(e3, TagPriority, U16(v.Priority))
        e5 == encodeDataElementWithSingleValue(e4, TagCommandDataSetType, U16(v.CommandDataSetType))
        e6 == encodeDataElementWithSingleValue(e5, TagAffectedSOPInstanceUID, Str(v.AffectedSOPInstanceUID))
        e7 == IF v.MoveOriginatorApplicationEntityTitle # <<>>
              THEN encodeDataElementWithSingleValue(e6, EncodeTagMoveOriginatorApplicationEntityTitle,
                                                    Str(v.MoveOriginatorApplicationEntityTitle))
              ELSE e6
    IN  IF v.MoveOriginatorMessageID # 0
        THEN encodeDataElementWithSingleValue(e7, EncodeTagMoveOriginatorMessageID,
                                              U16(v.MoveOriginatorMessageID))
        ELSE e7

\* C_STORE_RSP.Encode, after its doassert(v.CommandDataSetType == 0x101)
C_STORE_RSP_Encode(e, v) ==
    LET e1 == encodeDataElementWithSingleValue(e, TagCommandField, U16(CommandFieldCStoreRsp))
        e2 == encodeDataElementWithSingleValue(e1, TagAffectedSOPClassUID, Str(v.AffectedSOPClassUID))
        e3 == encodeDataElementWithSingleValue(e2, TagMessageIDBeingRespondedTo, U16(v.MessageIDBeingRespondedTo))
        e4 == encodeDataElementWithSingleValue(e3, TagCommandDataSetType, U16(v.CommandDataSetType))
        e5 == encodeDataElementWithSingleValue(e4, TagAffectedSOPInstanceUID, Str(v.AffectedSOPInstanceUID))
    IN  encodeDataElementWithSingleValue(e5, TagStatus, U16(v.Status))

\* Whether v.Encode panics: the doassert of C_STORE_RSP.Encode.
EncodePanics(v) ==
    v.type = "C_STORE_RSP" /\ v.CommandDataSetType # CommandDataSetTypeNull

MessageEncode(e, v) ==
    IF v.type = "C_STORE_RQ" THEN C_STORE_RQ_Encode(e, v) ELSE C_STORE_RSP_Encode(e, v)

\* A group length that counts the CommandGroupLength element too.
CommandGroupLengthWithHeader(bytes) == Len(bytes) + 12

\* The value encodeDIMSEMessage writes as CommandGroupLength.
CommandGroupLengthOf(bytes) == Len(bytes)

\* encodeDIMSEMessage: [res |-> "ok" | "err" | "panic", bytes]
encodeDIMSEMessage(v) ==
    IF EncodePanics(v) THEN [res |-> "panic", bytes |-> <<>>]
    ELSE LET sub == MessageEncode(NewEncoder, v) IN
         IF sub.err THEN [res |-> "err", bytes |-> <<>>]
         ELSE LET e1 == encodeDataElementWithSingleValue(NewEncoder, TagCommandGroupLength,
                                                         U32(CommandGroupLengthOf(sub.buf)))
                  e2 == EncodeBytes(e1, sub.buf)
              IN  IF e2.err THEN [res |-> "err", bytes |-> <<>>]
                  ELSE [res |-> "ok", bytes |-> e2.buf]

-----------------------------------------------------------------------------
(* The element decoder (dicom.Decoder, dicom.ReadDataElement) *)

RECURSIVE Words16(_)
Words16(b) == IF Len(b) < 2 THEN <<>>
              ELSE <<FromLE16(b)>> \o Words16(Slice(b, 3, Len(b)))

RECURSIVE Words32(_)
Words32(b) == IF Len(b) < 4 THEN <<>>
              ELSE <<FromLE32(b)>> \o Words32(Slice(b, 5, Len(b)))

\* The values of an element of representation vr read from value bytes vb.
DecodeValue(vr, vb) ==
    IF vr = "US" THEN [kind |-> "u16", vals |-> Words16(vb)]
    ELSE IF vr = "UL" THEN [kind |-> "u32", vals |-> Words32(vb)]
    ELSE IF vr \in {"UI", "AE"} THEN [kind |-> "str", vals |-> <<StripPad(vb)>>]
    ELSE [kind |-> "bytes", vals |-> <<vb>>]

\* The loop of DecodeDIMSEMessage: read elements until the bytes run out or
\* the decoder fails (an element cut short). [err, elems]
RECURSIVE ReadFrom(_, _, _)
ReadFrom(b, pos, acc) ==
    IF pos > Len(b) THEN [err |-> FALSE, elems |-> acc]
    ELSE IF Len(b) - pos + 1 < 8 THEN [err |-> TRUE, elems |-> acc]
    ELSE IF Len(b) - pos + 1 < 8 + FromLE32(SubSeq(b, pos + 4, pos + 7))
         THEN [err |-> TRUE, elems |-> acc]
    ELSE ReadFrom(b, pos + 8 + FromLE32(SubSeq(b, pos + 4, pos + 7)),
                  Append(acc,
                         [tag |-> Tag(FromLE16(SubSeq(b, pos, pos + 1)),
                                      FromLE16(SubSeq(b, pos + 2, pos + 3))),
                          value |-> DecodeValue(
                              TagVR(Tag(FromLE16(SubSeq(b, pos, pos + 1)),
                                        FromLE16(SubSeq(b, pos + 2, pos + 3)))),
                              Slice(b, pos + 8,
                                    pos + 7 + FromLE32(SubSeq(b, pos + 4, pos + 7))))]))

ReadElements(b) == ReadFrom(b, 1, <<>>)

\* findElementWithTag: the index of the first element with the tag, 0 if none.
findElementWithTag(elems, tag) ==
    IF \E i \in 1..Len(elems) : elems[i].tag = tag
    THEN CHOOSE i \in 1..Len(elems) :
            /\ elems[i].tag = tag
            /\ \A j \in 1..(i - 1) : elems[j].tag # tag
    ELSE 0

\* getStringFromElements: [err, v]
getStringFromElements(elems, tag) ==
    LET i == findElementWithTag(elems, tag) IN
    IF i = 0 THEN [err |-> TRUE, v |-> <<>>]
    ELSE IF elems[i].value.kind = "str" /\ Len(elems[i].value.vals) = 1
         THEN [err |-> FALSE, v |-> elems[i].value.vals[1]]
         ELSE [err |-> TRUE, v |-> <<>>]

\* getUInt16FromElements: [err, v]
getUInt16FromElements(elems, tag) ==
    LET i == findElementWithTag(elems, tag) IN
    IF i = 0 THEN [err |-> TRUE, v |-> 0]
    ELSE IF elems[i].value.kind = "u16" /\ Len(elems[i].value.vals) = 1
         THEN [err |-> FALSE, v |-> elems[i].value.vals[1]]
         ELSE [err |-> TRUE, v |-> 0]

\* A decode that failed inside decodeC_STORE_RQ / decodeC_STORE_RSP returns a
\* nil pointer of the message type, which DecodeDIMSEMessage returns as a
\* non-nil DIMSEMessage beside the error.
NilPtrMsg == [type |-> "nilptr"]

DecodeErr == [res |-> "err", msg |-> NoMsg]
DecodeErrNilPtr == [res |-> "err", msg |-> NilPtrMsg]

\* decodeC_STORE_RQ
decodeC_STORE_RQ(elems) ==
    LET sopClass == getStringFromElements(elems, TagAffectedSOPClassUID)
        msgID    == getUInt16FromElements(elems, TagMessageID)
        prio     == getUInt16FromElements(elems, TagPriority)
        cdst     == getUInt16FromElements(elems, TagCommandDataSetType)
        sopInst  == getStringFromElements(elems, TagAffectedSOPInstanceUID)
        moAET    == getStringFromElements(elems, TagMoveOriginatorApplicationEntityTitle)
        moMsgID  == getUInt16FromElements(elems, TagMoveOriginatorMessageID)
    IN  IF sopClass.err \/ msgID.err \/ prio.err \/ cdst.err \/ sopInst.err
        THEN DecodeErrNilPtr
        ELSE [res |-> "ok",
              msg |-> C_STORE_RQ(sopClass.v, msgID.v, prio.v, cdst.v, sopInst.v, moAET.v, moMsgID.v)]

\* decodeC_STORE_RSP: it reads AffectedSOPClassUID, MessageIDBeingRespondedTo,
\* Status and CommandDataSetType; AffectedSOPInstanceUID keeps its zero value.
decodeC_STORE_RSP(elems) ==
    LET sopClass == getStringFromElements(elems, TagAffectedSOPClassUID)
        msgID    == getUInt16FromElements(elems, TagMessageIDBeingRespondedTo)
        status   == getUInt16FromElements(elems, TagStatus)
        cdst     == getUInt16FromElements(elems, TagCommandDataSetType)
    IN  IF sopClass.err \/ msgID.err \/ status.err \/ cdst.err
        THEN DecodeErrNilPtr
        ELSE [res |-> "ok",
              msg |-> C_STORE_RSP(sopClass.v, msgID.v, cdst.v, <<>>, status.v)]

\* DecodeDIMSEMessage: [res |-> "ok" | "err" | "panic", msg]
DecodeDIMSEMessage(bytes) ==
    LET d == ReadElements(bytes) IN
    IF d.err THEN DecodeErr
    ELSE LET commandField == getUInt16FromElements(d.elems, TagCommandField) IN
         IF commandField.err THEN DecodeErr
         ELSE IF commandField.v = CommandFieldCStoreRq THEN decodeC_STORE_RQ(d.elems)
         ELSE IF commandField.v = CommandFieldCStoreRsp THEN decodeC_STORE_RSP(d.elems)
         ELSE [res |-> "panic", msg |-> NoMsg]      \* log.Panicf("Unknown DIMSE command")

-----------------------------------------------------------------------------
(* Inputs of the codec *)

NonNullDataSetType == 1
StatusSuccess == 0
CStoreStatusOutOfResources == 42752     \* 0xa700
CStoreStatusCannotUnderstand == 49152   \* 0xc000

\* A CommandField DecodeDIMSEMessage has no case for (0x30, C-ECHO-RQ).
UnknownCommandField == 48

MaxMessageID == 2

UIDa == <<49, 46, 50>>                  \* "1.2"
UIDb == <<49, 46, 51, 48>>              \* "1.30"
AETitle == <<65, 69, 49>>               \* "AE1"

MessageIDs == 1..MaxMessageID
DataSetTypes == {CommandDataSetTypeNull, NonNullDataSetType}
Statuses == {StatusSuccess, CStoreStatusOutOfResources, CStoreStatusCannotUnderstand}

RqMessages ==
    { C_STORE_RQ(UIDa, m, p, t, i, ae, mm) :
        m \in MessageIDs, p \in {0, 2}, t \in DataSetTypes, i \in {UIDa, UIDb},
        ae \in {<<>>, AETitle}, mm \in {0, MaxMessageID + 5} }

RspMessages ==
    { C_STORE_RSP(UIDa, m, t, i, st) :
        m \in MessageIDs, t \in DataSetTypes, i \in {UIDa, UIDb}, st \in Statuses }

Messages == RqMessages \cup RspMessages

\* The elements the spec's table requires of each message type.
RqRequiredTags == {TagAffectedSOPClassUID, TagMessageID, TagPriority,
                   TagCommandDataSetType, TagAffectedSOPInstanceUID}
RspRequiredTags == {TagAffectedSOPClassUID, TagMessageIDBeingRespondedTo,
                    TagCommandDataSetType, TagAffectedSOPInstanceUID, TagStatus}
RequiredTags(type) == IF type = "C_STORE_RQ" THEN RqRequiredTags ELSE RspRequiredTags

\* What a peer may leave out of a command it sends.
OmittableTags == RqRequiredTags \cup RspRequiredTags \cup {TagCommandField}

\* Command bytes without the element of the given tag.
RECURSIVE WithoutElement(_, _)
WithoutElement(b, tag) ==
    IF Len(b) < 8 THEN b
    ELSE LET t == Tag(FromLE16(Slice(b, 1, 2)), FromLE16(Slice(b, 3, 4)))
             n == FromLE32(Slice(b, 5, 8))
             rest == WithoutElement(Slice(b, 9 + n, Len(b)), tag)
         IN  IF t = tag THEN rest ELSE Slice(b, 1, 8 + n) \o rest

\* Command bytes with the CommandField element's value replaced.
RECURSIVE WithCommandField(_, _)
WithCommandField(b, cf) ==
    IF Len(b) < 8 THEN b
    ELSE LET t == Tag(FromLE16(Slice(b, 1, 2)), FromLE16(Slice(b, 3, 4)))
             n == FromLE32(Slice(b, 5, 8))
             rest == WithCommandField(Slice(b, 9 + n, Len(b)), cf)
         IN  IF t = TagCommandField
             THEN ElementBytes(t, LE16(cf)) \o rest
             ELSE Slice(b, 1, 8 + n) \o rest

-----------------------------------------------------------------------------
(* Codec actions *)

CodecInit ==
    /\ libUnknownTag \in {"error", "raw"}
    /\ cPc = "msg"
    /\ cMsg \in Messages
    /\ cEnc = [res |-> "none", bytes |-> <<>>]
    /\ cWire = <<>>
    /\ cRemoved = NoTag
    /\ cField = 0
    /\ cDec = [res |-> "none", msg |-> NoMsg]

CodecIdle ==
    /\ libUnknownTag = "error"
    /\ cPc = "idle"
    /\ cMsg = NoMsg
    /\ cEnc = [res |-> "none", bytes |-> <<>>]
    /\ cWire = <<>>
    /\ cRemoved = NoTag
    /\ cField = 0
    /\ cDec = [res |-> "none", msg |-> NoMsg]

\* encodeDIMSEMessage(cMsg); its bytes go on the wire.
CodecEncode ==
    /\ cPc = "msg"
    /\ cEnc' = encodeDIMSEMessage(cMsg)
    /\ cWire' = cEnc'.bytes
    /\ cPc' = "encoded"
    /\ UNCHANGED <<libUnknownTag, cMsg, cRemoved, cField, cDec>>
    /\ UNCHANGED <<asmVars, scuVars, srvVars, assocVars, lockVars>>

\* The peer's command lacks one element.
CodecPeerOmits(tag) ==
    /\ cPc = "encoded"
    /\ cEnc.res = "ok"
    /\ cWire' = WithoutElement(cWire, tag)
    /\ cWire' # cWire
    /\ cRemoved' = tag
    /\ cPc' = "tampered"
    /\ UNCHANGED <<libUnknownTag, cMsg, cEnc, cField, cDec>>
    /\ UNCHANGED <<asmVars, scuVars, srvVars, assocVars, lockVars>>

\* The peer's command carries a CommandField of another message type.
CodecPeerCommandField(cf) ==
    /\ cPc = "encoded"
    /\ cEnc.res = "ok"
    /\ cWire' = WithCommandField(cWire, cf)
    /\ cField' = cf
    /\ cPc' = "tampered"
    /\ UNCHANGED <<libUnknownTag, cMsg, cEnc, cRemoved, cDec>>
    /\ UNCHANGED <<asmVars, scuVars, srvVars, assocVars, lockVars>>

\* DecodeDIMSEMessage(cWire)
CodecDecode ==
    /\ cPc \in {"encoded", "tampered"}
    /\ cEnc.res = "ok"
    /\ cDec' = DecodeDIMSEMessage(cWire)
    /\ cPc' = "decoded"
    /\ UNCHANGED <<libUnknownTag, cMsg, cEnc, cWire, cRemoved, cField>>
    /\ UNCHANGED <<asmVars, scuVars, srvVars, assocVars, lockVars>>

CodecNext ==
    \/ CodecEncode
    \/ \E tag \in OmittableTags : CodecPeerOmits(tag)
    \/ CodecPeerCommandField(UnknownCommandField)
    \/ CodecDecode

-----------------------------------------------------------------------------
(* The command assembler: dimseCommandAssembler and addPDataTF *)

EmptyAssembler ==
    [contextID |-> 0, commandBytes |-> <<>>, command |-> NoMsg,
     dataBytes |-> <<>>, readAllCommand |-> FALSE, readAllData |-> FALSE]

PDV(ctx, isCommand, isLast, value) ==
    [ContextID |-> ctx, Command |-> isCommand, Last |-> isLast, Value |-> value]

\* Whether the loop body panics on this item: log.Panicf("Mixed context") or
\* one of the two doasserts.
MixedContext(st, item) == st.contextID # 0 /\ st.contextID # item.ContextID

\* The loop without its two doasserts.
ItemPanicsOnMixedContextOnly(st, item) == MixedContext(st, item)

ItemPanics(st, item) ==
    \/ MixedContext(st, item)
    \/ item.Command /\ item.Last /\ st.readAllCommand
    \/ ~item.Command /\ item.Last /\ st.readAllData

\* A loop that puts each fragment in front of the bytes it has.
AddItemInFront(st, item) ==
    LET s1 == IF st.contextID = 0 THEN [st EXCEPT !.contextID = item.ContextID] ELSE st
    IN  IF item.Command
        THEN [s1 EXCEPT !.commandBytes = item.Value \o s1.commandBytes,
                        !.readAllCommand = s1.readAllCommand \/ item.Last]
        ELSE [s1 EXCEPT !.dataBytes = item.Value \o s1.dataBytes,
                        !.readAllData = s1.readAllData \/ item.Last]

\* One iteration of the loop over pdu.Items.
AddItem(st, item) ==
    LET s1 == IF st.contextID = 0 THEN [st EXCEPT !.contextID = item.ContextID] ELSE st
    IN  IF item.Command
        THEN [s1 EXCEPT !.commandBytes = s1.commandBytes \o item.Value,
                        !.readAllCommand = s1.readAllCommand \/ item.Last]
        ELSE [s1 EXCEPT !.dataBytes = s1.dataBytes \o item.Value,
                        !.readAllData = s1.readAllData \/ item.Last]

\* The loop: [panic, st]
RECURSIVE AddItems(_, _)
AddItems(st, items) ==
    IF Len(items) = 0 THEN [panic |-> FALSE, st |-> st]
    ELSE IF ItemPanics(st, Head(items)) THEN [panic |-> TRUE, st |-> st]
    ELSE AddItems(AddItem(st, Head(items)), Tail(items))

\* C_STORE_RQ.HasData and C_STORE_RSP.HasData: [panic, v]. Each begins with a
\* doassert on CommandDataSetType; a method call on a nil pointer dereferences it.
HasData(v) ==
    IF v.type = "nilptr" THEN [panic |-> TRUE, v |-> FALSE]
    ELSE IF v.type = "C_STORE_RQ"
    THEN [panic |-> ~(v.CommandDataSetType # CommandDataSetTypeNull),
          v |-> v.CommandDataSetType # CommandDataSetTypeNull]
    ELSE [panic |-> ~(v.CommandDataSetType = CommandDataSetTypeNull),
          v |-> v.CommandDataSetType # CommandDataSetTypeNull]

\* The association's negotiated contexts: contextID -> abstract syntax.
contextIDMap == (1 :> UIDa)

\* contextIDToAbstractSyntaxName: [err, name]
contextIDToAbstractSyntaxName(m, id) ==
    IF id \in DOMAIN m THEN [err |-> FALSE, name |-> m[id]]
    ELSE [err |-> TRUE, name |-> <<>>]

AsmResult(kind, syntaxName, command, dataBytes) ==
    [kind |-> kind, syntaxName |-> syntaxName, command |-> command, dataBytes |-> dataBytes]
AsmNone  == AsmResult("none", <<>>, NoMsg, <<>>)
AsmErr   == AsmResult("err", <<>>, NoMsg, <<>>)
AsmPanic == AsmResult("panic", <<>>, NoMsg, <<>>)

\* The assembler after "*a = dimseCommandAssembler{}".
AfterEmit(st) == EmptyAssembler

\* addPDataTF(a, pdu, contextIDMap): [a, res]
addPDataTF(st0, items, m) ==
    LET l == AddItems(st0, items) IN
    IF l.panic THEN [a |-> l.st, res |-> AsmPanic]
    ELSE IF ~l.st.readAllCommand THEN [a |-> l.st, res |-> AsmNone]
    ELSE LET d  == IF l.st.command = NoMsg
                   THEN DecodeDIMSEMessage(l.st.commandBytes)
                   ELSE [res |-> "ok", msg |-> l.st.command]
             s2 == [l.st EXCEPT !.command = d.msg]
         IN  IF d.res = "panic" THEN [a |-> l.st, res |-> AsmPanic]
             ELSE IF d.res = "err" THEN [a |-> s2, res |-> AsmErr]
             ELSE LET h == HasData(s2.command) IN
                  IF h.panic THEN [a |-> s2, res |-> AsmPanic]
                  ELSE IF h.v /\ ~s2.readAllData THEN [a |-> s2, res |-> AsmNone]
                  ELSE [a |-> AfterEmit(s2),
                        res |-> AsmResult("msg",
                                          contextIDToAbstractSyntaxName(m, s2.contextID).name,
                                          s2.command, s2.dataBytes)]

-----------------------------------------------------------------------------
(* Inputs of the assembler: the commands a peer sends, cut into PDVs *)

MaxPDVs == 4        \* PDVs fed on the association
MaxItems == 2       \* PDVs in one P-DATA-TF

RECURSIVE Concat(_)
Concat(ss) == IF Len(ss) = 0 THEN <<>> ELSE Head(ss) \o Concat(Tail(ss))

PeerElement(tag, value) == ElementBytes(tag, ValueBytes(TagVR(tag), value))

\* Command bytes as a peer writes them: CommandGroupLength, then the elements.
PeerCommand(elems) ==
    ElementBytes(TagCommandGroupLength, LE32(Len(Concat(elems)))) \o Concat(elems)

PeerRq(cdst) ==
    PeerCommand(<<PeerElement(TagCommandField, U16(CommandFieldCStoreRq)),
                  PeerElement(TagAffectedSOPClassUID, Str(UIDa)),
                  PeerElement(TagMessageID, U16(1)),
                  PeerElement(TagPriority, U16(0)),
                  PeerElement(TagCommandDataSetType, U16(cdst)),
                  PeerElement(TagAffectedSOPInstanceUID, Str(UIDb))>>)

PeerRsp(cdst) ==
    PeerCommand(<<PeerElement(TagCommandField, U16(CommandFieldCStoreRsp)),
                  PeerElement(TagAffectedSOPClassUID, Str(UIDa)),
                  PeerElement(TagMessageIDBeingRespondedTo, U16(1)),
                  PeerElement(TagCommandDataSetType, U16(cdst)),
                  PeerElement(TagAffectedSOPInstanceUID, Str(UIDb)),
                  PeerElement(TagStatus, U16(StatusSuccess))>>)

RqWithData    == PeerRq(NonNullDataSetType)
RqNull        == PeerRq(CommandDataSetTypeNull)
RspNull       == PeerRsp(CommandDataSetTypeNull)
RspWithData   == PeerRsp(NonNullDataSetType)
UnknownCmd    == WithCommandField(RspNull, UnknownCommandField)
RspNoStatus   == WithoutElement(RspNull, TagStatus)

HeadOf(b) == Slice(b, 1, Len(b) \div 2)
TailOf(b) == Slice(b, (Len(b) \div 2) + 1, Len(b))

\* The fragment values a PDV may carry, by name. The history variables keep
\* the names; addPDataTF is handed the bytes.
FragBytes ==
    [cmdRqWithData     |-> RqWithData,
     cmdRqNull         |-> RqNull,
     cmdRspNull        |-> RspNull,
     cmdRspWithData    |-> RspWithData,
     cmdUnknown        |-> UnknownCmd,
     cmdRspNoStatus    |-> RspNoStatus,
     headRqWithData    |-> HeadOf(RqWithData),
     tailRqWithData    |-> TailOf(RqWithData),
     dataA             |-> <<170>>,
     dataBC            |-> <<187, 204>>]

\* Whole commands and the tail of a split command carry Last; its head does not.
LastCommandValues == {"cmdRqWithData", "cmdRqNull", "cmdRspNull", "cmdRspWithData",
                      "cmdUnknown", "cmdRspNoStatus", "tailRqWithData"}

\* The PDVs a peer may send: on context 1 every fragment, on context 3 (which
\* contextIDMap does not hold) one command and one data fragment.
PDVs ==
    { PDV(1, TRUE, TRUE, v) : v \in LastCommandValues }
    \cup { PDV(1, TRUE, FALSE, "headRqWithData"),
           PDV(1, FALSE, FALSE, "dataA"),
           PDV(1, FALSE, TRUE, "dataBC"),
           PDV(3, TRUE, TRUE, "cmdRspNull"),
           PDV(3, FALSE, TRUE, "dataBC") }

\* The items as they arrive: each value's bytes.
Wire(items) == [i \in 1..Len(items) |-> [items[i] EXCEPT !.Value = FragBytes[@]]]

\* The items of one P-DATA-TF of n PDVs
PDUs(n) == [1..n -> PDVs]

-----------------------------------------------------------------------------
(* Assembler actions *)

AsmInit ==
    /\ a = EmptyAssembler
    /\ aRes = AsmNone
    /\ aFed = <<>>
    /\ aPdu = <<>>
    /\ aCount = 0
    /\ aCompleteAt = 0

\* The first item of the PDU after which the message is complete: the call
\* would have emitted had the PDU ended there. 0 when there is none.
CompletingIndex(st0, items) ==
    LET done == { i \in 1..Len(items) :
                    addPDataTF(st0, Wire(SubSeq(items, 1, i)), contextIDMap).res.kind = "msg" }
    IN  IF done = {} THEN 0 ELSE CHOOSE i \in done : \A j \in done : i <= j

\* The state machine hands one P-DATA-TF to addPDataTF.
AsmAddPDataTF(items) ==
    /\ aRes.kind # "panic"
    /\ aCount + Len(items) <= MaxPDVs
    /\ LET r == addPDataTF(a, Wire(items), contextIDMap) IN
        /\ a' = r.a
        /\ aRes' = r.res
    /\ aFed' = IF a = EmptyAssembler THEN items ELSE aFed \o items
    /\ aPdu' = items
    /\ aCount' = aCount + Len(items)
    /\ aCompleteAt' = CompletingIndex(a, items)
    /\ UNCHANGED <<codecVars, scuVars, srvVars, assocVars, lockVars>>

AsmNext ==
    \E n \in 1..MaxItems :
        /\ aCount + n <= MaxPDVs
        /\ \E items \in PDUs(n) : AsmAddPDataTF(items)

AsmIdle ==
    /\ a = EmptyAssembler
    /\ aRes = AsmNone
    /\ aFed = <<>>
    /\ aPdu = <<>>
    /\ aCount = MaxPDVs
    /\ aCompleteAt = 0

-----------------------------------------------------------------------------
(* The service user's C-STORE: runCStoreOnAssociation *)

MaxUpcalls == 2     \* upcall events in flight
MaxCalls == 2       \* calls on one pair of channels

None == <<>>        \* an element the data set lacks

\* The abstract syntaxes the association's context manager holds a context for.
contextManager == {UIDa}

\* cm.lookupByAbstractSyntaxUID: [err, transferSyntaxUID]
lookupByAbstractSyntaxUID(cm, uid) ==
    IF uid \in cm THEN [err |-> FALSE, transferSyntaxUID |-> UIDb]
    ELSE [err |-> TRUE, transferSyntaxUID |-> <<>>]

\* The events the state machine may put on the upcall channel.
UpcallEvent(eventType, command) == [eventType |-> eventType, command |-> command]
UpcallEvents ==
    { UpcallEvent("upcallEventData", C_STORE_RSP(UIDa, m, CommandDataSetTypeNull, UIDb, st)) :
        m \in MessageIDs, st \in Statuses }
    \cup { UpcallEvent("upcallEventData", NoMsg),
           UpcallEvent("upcallEventData", C_STORE_RQ(UIDa, 1, 0, NonNullDataSetType, UIDb, <<>>, 0)),
           UpcallEvent("upcallEventHandshakeCompleted", NoMsg) }

\* An element of the data set: whether it is of the metadata group, and the
\* bytes dicom.WriteElement writes for it.
Element(metadata, bytes) == [metadata |-> metadata, bytes |-> bytes]
DataSets == { <<Element(TRUE, <<2>>), Element(FALSE, <<170>>)>>,
              <<Element(FALSE, <<187>>), Element(TRUE, <<2>>), Element(FALSE, <<204>>)>> }

\* bodyEncoder.Bytes(): every element but those of the metadata group, in order.
WrittenElements(elements) == SelectSeq(elements, LAMBDA e : ~e.metadata)
BodyBytes(in) ==
    Concat([i \in 1..Len(WrittenElements(in.elements)) |-> WrittenElements(in.elements)[i].bytes])

ScuInputs ==
    [messageID : MessageIDs,
     sopInstanceUID : {None, UIDb},
     sopClassUID : {None, UIDa, UIDb},
     encoderFails : BOOLEAN,
     elements : DataSets]

ScuInit ==
    /\ uPc = "start"
    /\ uIn \in ScuInputs
    /\ uErr = ""
    /\ upcallCh = [q |-> <<>>, closed |-> FALSE]
    /\ downcallCh = <<>>
    /\ uTaken = <<>>
    /\ uErrArg = NoMsg
    /\ uReturned = <<>>

ScuIdle ==
    /\ uPc = "idle"
    /\ uIn = [messageID |-> 1, sopInstanceUID |-> None, sopClassUID |-> None,
              encoderFails |-> FALSE, elements |-> <<>>]
    /\ uErr = ""
    /\ upcallCh = [q |-> <<>>, closed |-> TRUE]
    /\ downcallCh = <<>>
    /\ uTaken = <<>>
    /\ uErrArg = NoMsg
    /\ uReturned = <<>>

\* The checks before the downcall, in the order of the code: "" when all pass.
PreCheckError(in) ==
    IF in.sopInstanceUID = None THEN "C-STORE data lacks SOPInstanceUID"
    ELSE IF in.sopClassUID = None THEN "C-STORE data lacks MediaStorageSOPClassUID"
    ELSE IF lookupByAbstractSyntaxUID(contextManager, in.sopClassUID).err
         THEN "no-matching-context"
    ELSE IF in.encoderFails THEN "body encoder failed"
    ELSE ""

\* The evt09 event sent on downcallCh.
Evt09(in) ==
    [event |-> "evt09",
     abstractSyntaxName |-> in.sopClassUID,
     command |-> C_STORE_RQ(in.sopClassUID, in.messageID, 0, NonNullDataSetType,
                            in.sopInstanceUID, <<>>, 0),
     data |-> BodyBytes(in)]

\* A call that sends its request before it checks anything.
DowncallsSentFirst(in) == <<Evt09(in)>>

\* What the checks let through to the downcall channel.
DowncallsOf(in) == IF PreCheckError(in) = "" THEN <<Evt09(in)>> ELSE <<>>

\* From the call to the send on downcallCh (or the early return).
ScuStart ==
    /\ uPc = "start"
    /\ downcallCh' = downcallCh \o DowncallsOf(uIn)
    /\ uErr' = PreCheckError(uIn)
    /\ uPc' = IF PreCheckError(uIn) = "" THEN "waiting" ELSE "done"
    /\ UNCHANGED <<uIn, upcallCh, uTaken, uErrArg, uReturned>>
    /\ UNCHANGED <<codecVars, asmVars, srvVars, assocVars, lockVars>>

\* The body of the response loop on one event: [pc, err]
UpcallResult(pc, err, arg) == [pc |-> pc, err |-> err, arg |-> arg]

\* A response loop that returns nil whatever the response's status.
OnUpcallIgnoringStatus(in, event) ==
    IF event.eventType # "upcallEventData" THEN UpcallResult("panic", "", NoMsg)
    ELSE IF event.command = NoMsg THEN UpcallResult("panic", "", NoMsg)
    ELSE IF event.command.type # "C_STORE_RSP" THEN UpcallResult("panic", "", NoMsg)
    ELSE UpcallResult("done", "", NoMsg)

OnUpcall(in, event) ==
    IF event.eventType # "upcallEventData" THEN UpcallResult("panic", "", NoMsg)
    ELSE IF event.command = NoMsg THEN UpcallResult("panic", "", NoMsg)
    ELSE IF event.command.type # "C_STORE_RSP" THEN UpcallResult("panic", "", NoMsg)
    ELSE IF event.command.Status # 0 THEN UpcallResult("done", "C_STORE failed", event.command)
    ELSE UpcallResult("done", "", NoMsg)

\* event, ok := <-upcallCh, with an event in the channel
ScuReceive ==
    /\ uPc = "waiting"
    /\ Len(upcallCh.q) > 0
    /\ LET r == OnUpcall(uIn, Head(upcallCh.q)) IN
        /\ uPc' = r.pc
        /\ uErr' = r.err
        /\ uErrArg' = r.arg
    /\ uTaken' = Append(uTaken, Head(upcallCh.q))
    /\ upcallCh' = [upcallCh EXCEPT !.q = Tail(upcallCh.q)]
    /\ UNCHANGED <<uIn, downcallCh, uReturned>>
    /\ UNCHANGED <<codecVars, asmVars, srvVars, assocVars, lockVars>>

\* A response loop that takes the closed channel for the end of a good call.
ScuReceiveClosedReportsSuccess ==
    /\ uPc = "waiting"
    /\ Len(upcallCh.q) = 0
    /\ upcallCh.closed
    /\ uPc' = "done"
    /\ uErr' = ""
    /\ UNCHANGED <<uIn, upcallCh, downcallCh, uTaken, uErrArg, uReturned>>
    /\ UNCHANGED <<codecVars, asmVars, srvVars, assocVars, lockVars>>

\* event, ok := <-upcallCh, on the closed and drained channel
ScuReceiveClosed ==
    /\ uPc = "waiting"
    /\ Len(upcallCh.q) = 0
    /\ upcallCh.closed
    /\ uPc' = "done"
    /\ uErr' = "Connection closed while waiting for C-STORE response"
    /\ UNCHANGED <<uIn, upcallCh, downcallCh, uTaken, uErrArg, uReturned>>
    /\ UNCHANGED <<codecVars, asmVars, srvVars, assocVars, lockVars>>

\* The state machine delivers an upcall.
EnvUpcall(event) ==
    /\ uPc \in {"start", "waiting"}
    /\ ~upcallCh.closed
    /\ Len(upcallCh.q) < MaxUpcalls
    /\ upcallCh' = [upcallCh EXCEPT !.q = Append(upcallCh.q, event)]
    /\ UNCHANGED <<uPc, uIn, uErr, downcallCh, uTaken, uErrArg, uReturned>>
    /\ UNCHANGED <<codecVars, asmVars, srvVars, assocVars, lockVars>>

\* The state machine closes the upcall channel.
EnvClose ==
    /\ uPc \in {"start", "waiting"}
    /\ ~upcallCh.closed
    /\ upcallCh' = [upcallCh EXCEPT !.closed = TRUE]
    /\ UNCHANGED <<uPc, uIn, uErr, downcallCh, uTaken, uErrArg, uReturned>>
    /\ UNCHANGED <<codecVars, asmVars, srvVars, assocVars, lockVars>>

\* The data set of the call before, sent again under any message ID.
NextInputs(in) == {[in EXCEPT !.messageID = m] : m \in MessageIDs}

\* The caller calls again on the same channels, after the call before returned.
ScuCallAgain(in) ==
    /\ uPc = "done"
    /\ Len(uReturned) + 1 < MaxCalls
    /\ uReturned' = Append(uReturned, uErr)
    /\ uPc' = "start"
    /\ uIn' = in
    /\ uErr' = ""
    /\ uErrArg' = NoMsg
    /\ uTaken' = <<>>
    /\ UNCHANGED <<upcallCh, downcallCh>>
    /\ UNCHANGED <<codecVars, asmVars, srvVars, assocVars, lockVars>>

ScuNext ==
    \/ ScuStart
    \/ ScuReceive
    \/ ScuReceiveClosed
    \/ \E event \in UpcallEvents : EnvUpcall(event)
    \/ EnvClose

-----------------------------------------------------------------------------
(* The sample server's C-FIND and C-MOVE/C-GET callbacks *)

ChannelCapacity == 128  \* make(chan ..., 128)
MaxFiles == 3           \* files of the small requests
MaxFilters == 2         \* filters of the small requests

NoDataSet == [path |-> 0]

\* A request: the server holds the files 1..files; the request has the filters
\* 1..filters; dicom.Query misses on the files of miss and fails on the file
\* queryErrAt (0: on none); dicom.ReadDataSetFromFile fails on the files of
\* unreadable.
SrvInput(files, filters, miss, queryErrAt, unreadable) ==
    [files |-> files, filters |-> filters, miss |-> miss, queryErrAt |-> queryErrAt,
     unreadable |-> unreadable]

SmallInputs ==
    { SrvInput(d, f, m, e, u) :
        d \in 0..MaxFiles, f \in 0..MaxFilters, m \in SUBSET {2}, e \in {0, 2},
        u \in {{}, {1}, {1, 2}} }

\* More matches than ch buffers.
LargeInput == SrvInput(ChannelCapacity + 1, 1, {}, 0, {1})

SrvInputs == SmallInputs \cup {LargeInput}

\* dicom.Query(ds, filter): "err", "miss", or "elem"
Query(in, path, filter) ==
    IF path = in.queryErrAt THEN "err"
    ELSE IF path \in in.miss THEN "miss"
    ELSE "elem"

\* The element of the file that matched the filter.
Elem(path, filter) == <<path, filter>>

filterMatch(path, elems) == [path |-> path, elems |-> elems]

\* The loop over the filters for one file: [err, allMatched, elems]
RECURSIVE MatchFilters(_, _, _, _)
MatchFilters(in, path, filter, elems) ==
    IF filter > in.filters THEN [err |-> "", allMatched |-> TRUE, elems |-> elems]
    ELSE IF Query(in, path, filter) = "err" THEN [err |-> "query", allMatched |-> FALSE, elems |-> elems]
    ELSE IF Query(in, path, filter) = "miss" THEN [err |-> "", allMatched |-> FALSE, elems |-> elems]
    ELSE MatchFilters(in, path, filter + 1, Append(elems, Elem(path, filter)))

FindResult(res, matches, err) == [res |-> res, matches |-> matches, err |-> err]

\* The file's turn in the loop over ss.datasets ends the loop: dicom.Query
\* failed (return matches, err), or the file matched with no element (panic).
StopsAt(in, path) ==
    LET m == MatchFilters(in, path, 1, <<>>) IN
    m.err # "" \/ (m.allMatched /\ Len(m.elems) = 0)

\* The files the loop gets through, in the order of the paths.
Visited(in) ==
    LET stops == { path \in 1..in.files : StopsAt(in, path) } IN
    IF stops = {} THEN in.files
    ELSE (CHOOSE path \in stops : \A other \in stops : path <= other) - 1

\* append(matches, match) for the files the loop gets through
MatchesOf(in, visited) ==
    LET paths == SelectSeq([path \in 1..visited |-> path],
                           LAMBDA path : MatchFilters(in, path, 1, <<>>).allMatched)
    IN [i \in 1..Len(paths) |-> filterMatch(paths[i], MatchFilters(in, paths[i], 1, <<>>).elems)]

\* [res, matches, err]
findMatchingFiles(in) ==
    LET visited == Visited(in)
        matches == MatchesOf(in, visited)
    IN IF visited = in.files THEN FindResult("ok", matches, "")
       ELSE LET m == MatchFilters(in, visited + 1, 1, <<>>) IN
            IF m.err # "" THEN FindResult("ok", matches, m.err)
            ELSE FindResult("panic", matches, "")

NewChannel == [q |-> <<>>, closes |-> 0]

CFindResult(elements, err) == [Elements |-> elements, Err |-> err]
CMoveResult(remaining, path, dataSet, err) ==
    [Remaining |-> remaining, Path |-> path, DataSet |-> dataSet, Err |-> err]

\* dicom.ReadDataSetFromFile(match.path): [ds, err]
ReadDataSetFromFile(in, path) ==
    IF path \in in.unreadable THEN [ds |-> NoDataSet, err |-> "read"]
    ELSE [ds |-> [path |-> path], err |-> ""]

\* The callback has returned ch and started its goroutine.
SrvInit ==
    /\ rPc = "find"
    /\ rIn \in SrvInputs
    /\ rMatches = <<>>
    /\ rErr = ""
    /\ rIdx = 0
    /\ rCh = NewChannel
    /\ rRecv = <<>>
    /\ rEnd = FALSE

SrvIdle ==
    /\ rPc = "idle"
    /\ rIn = SrvInput(0, 0, {}, 0, {})
    /\ rMatches = <<>>
    /\ rErr = ""
    /\ rIdx = 0
    /\ rCh = NewChannel
    /\ rRecv = <<>>
    /\ rEnd = TRUE

\* matches, err := ss.findMatchingFiles(filters)
SrvFindMatchingFiles ==
    /\ rPc = "find"
    /\ LET r == findMatchingFiles(rIn) IN
        /\ rPc' = IF r.res = "panic" THEN "panic" ELSE "loop"
        /\ rMatches' = r.matches
        /\ rErr' = r.err
    /\ UNCHANGED <<rIn, rIdx, rCh, rRecv, rEnd>>
    /\ UNCHANGED <<codecVars, asmVars, scuVars, assocVars, lockVars>>

\* ch <- result, which blocks while the buffer is full
SrvSend(result, pc) ==
    /\ Len(rCh.q) < ChannelCapacity
    /\ rCh' = [rCh EXCEPT !.q = Append(rCh.q, result)]
    /\ rPc' = pc
    /\ UNCHANGED <<rIn, rMatches, rErr, rRecv, rEnd>>
    /\ UNCHANGED <<codecVars, asmVars, scuVars, assocVars, lockVars>>

\* onCFind: ch <- netdicom.CFindResult{Err: err}
FindSendErr ==
    /\ rPc = "loop"
    /\ rErr # ""
    /\ SrvSend(CFindResult(<<>>, rErr), "close")
    /\ UNCHANGED rIdx

\* onCFind: ch <- netdicom.CFindResult{Elements: match.elems}
FindSend ==
    /\ rPc = "loop"
    /\ rErr = ""
    /\ rIdx < Len(rMatches)
    /\ SrvSend(CFindResult(rMatches[rIdx + 1].elems, ""), "loop")
    /\ rIdx' = rIdx + 1

\* onCMoveOrCGet: ch <- netdicom.CMoveResult{Err: err}
MoveSendErr ==
    /\ rPc = "loop"
    /\ rErr # ""
    /\ SrvSend(CMoveResult(0, 0, NoDataSet, rErr), "close")
    /\ UNCHANGED rIdx

\* A loop that counts the matches that are left from the number of files.
MoveResultOfFiles(in, matches, i) ==
    LET match == matches[i + 1]
        r == ReadDataSetFromFile(in, match.path)
    IN CMoveResult(in.files - i - 1, match.path, r.ds, r.err)

\* The result of the loop's iteration i (from 0) over matches.
MoveResultOf(in, matches, i) ==
    LET match == matches[i + 1]
        r == ReadDataSetFromFile(in, match.path)
    IN CMoveResult(Len(matches) - i - 1, match.path, r.ds, r.err)

\* onCMoveOrCGet: ch <- resp
MoveSend ==
    /\ rPc = "loop"
    /\ rErr = ""
    /\ rIdx < Len(rMatches)
    /\ SrvSend(MoveResultOf(rIn, rMatches, rIdx), "loop")
    /\ rIdx' = rIdx + 1

\* close(ch), after the loop or the error result
SrvClose ==
    /\ \/ rPc = "close"
       \/ rPc = "loop" /\ rErr = "" /\ rIdx = Len(rMatches)
    /\ rCh' = [rCh EXCEPT !.closes = rCh.closes + 1]
    /\ rPc' = "done"
    /\ UNCHANGED <<rIn, rMatches, rErr, rIdx, rRecv, rEnd>>
    /\ UNCHANGED <<codecVars, asmVars, scuVars, assocVars, lockVars>>

\* The consumer receives a result from ch.
SrvRecv ==
    /\ ~rEnd
    /\ Len(rCh.q) > 0
    /\ rRecv' = Append(rRecv, Head(rCh.q))
    /\ rCh' = [rCh EXCEPT !.q = Tail(rCh.q)]
    /\ UNCHANGED <<rPc, rIn, rMatches, rErr, rIdx, rEnd>>
    /\ UNCHANGED <<codecVars, asmVars, scuVars, assocVars, lockVars>>

\* The consumer's receive on the closed and drained ch: the end of the sequence.
SrvRecvEnd ==
    /\ ~rEnd
    /\ Len(rCh.q) = 0
    /\ rCh.closes > 0
    /\ rEnd' = TRUE
    /\ UNCHANGED <<rPc, rIn, rMatches, rErr, rIdx, rCh, rRecv>>
    /\ UNCHANGED <<codecVars, asmVars, scuVars, assocVars, lockVars>>

FindProducer == SrvFindMatchingFiles \/ FindSendErr \/ FindSend \/ SrvClose
MoveProducer == SrvFindMatchingFiles \/ MoveSendErr \/ MoveSend \/ SrvClose
SrvConsumer == SrvRecv \/ SrvRecvEnd

-----------------------------------------------------------------------------
(* The association: the state machine of each side, the service provider's   *)
(* dispatch, the fault injector, and the client of the end-to-end test       *)

MaxFaults == 1          \* faults in one side's script
MaxShutdownCalls == 2   \* Release and Abort calls after runClient's own

Sides == {"scu", "scp"}
Peer(side) == IF side = "scu" THEN "scp" ELSE "scu"

States == {"Sta1", "Sta2", "Sta3", "Sta4", "Sta5", "Sta6", "Sta7", "Sta8", "Sta9",
           "Sta10", "Sta11", "Sta12", "Sta13"}

Events == {"evt01", "evt02", "evt03", "evt04", "evt05", "evt06", "evt07", "evt08",
           "evt09", "evt10", "evt11", "evt12", "evt13", "evt14", "evt15", "evt16",
           "evt17", "evt18", "evt19"}

NoPayload == <<>>
StateEvent(event, payload) == [event |-> event, payload |-> payload]

\* What travels on the TCP connection: the connection's set-up and close, and PDUs.
WireItem(kind, items) == [kind |-> kind, items |-> items]

\* The event a state machine makes of what it reads from its connection.
EventOfWireItem(item) ==
    CASE item.kind = "connect"        -> StateEvent("evt05", NoPayload)
      [] item.kind = "connected"      -> StateEvent("evt02", NoPayload)
      [] item.kind = "A-ASSOCIATE-RQ" -> StateEvent("evt06", NoPayload)
      [] item.kind = "A-ASSOCIATE-AC" -> StateEvent("evt03", NoPayload)
      [] item.kind = "A-ASSOCIATE-RJ" -> StateEvent("evt04", NoPayload)
      [] item.kind = "P-DATA-TF"      -> StateEvent("evt10", item.items)
      [] item.kind = "A-RELEASE-RQ"   -> StateEvent("evt12", NoPayload)
      [] item.kind = "A-RELEASE-RP"   -> StateEvent("evt13", NoPayload)
      [] item.kind = "A-ABORT"        -> StateEvent("evt16", NoPayload)
      [] item.kind = "closed"         -> StateEvent("evt17", NoPayload)
      [] OTHER                        -> StateEvent("evt19", NoPayload)

\* The states with a TCP connection, in which an abort, a close or an invalid
\* PDU can be seen.
ConnectedStates == States \ {"Sta1"}

\* The transition table: <<state, event, action, next state>>
TransitionTable ==
    { <<"Sta1", "evt01", "AE-1", "Sta4">>,
      <<"Sta4", "evt02", "AE-2", "Sta5">>,
      <<"Sta5", "evt03", "AE-3", "Sta6">>,
      <<"Sta5", "evt04", "AE-4", "Sta1">>,
      <<"Sta1", "evt05", "AE-5", "Sta2">>,
      <<"Sta2", "evt06", "AE-6", "Sta3">>,
      <<"Sta3", "evt07", "AE-7", "Sta6">>,
      <<"Sta3", "evt08", "AE-8", "Sta13">>,
      <<"Sta6", "evt09", "DT-1", "Sta6">>,
      <<"Sta6", "evt10", "DT-2", "Sta6">>,
      <<"Sta6", "evt11", "AR-1", "Sta7">>,
      <<"Sta6", "evt12", "AR-2", "Sta8">>,
      <<"Sta7", "evt13", "AR-3", "Sta1">>,
      <<"Sta7", "evt10", "AR-6", "Sta7">>,
      <<"Sta8", "evt14", "AR-4", "Sta13">>,
      <<"Sta8", "evt09", "AR-7", "Sta8">>,
      <<"Sta13", "evt17", "AR-5", "Sta1">>,
      <<"Sta13", "evt18", "AA-2", "Sta1">>,
      <<"Sta2", "evt18", "AA-2", "Sta1">> }
    \cup { <<s, "evt15", "AA-1", "Sta1">> : s \in ConnectedStates }
    \cup { <<s, "evt16", "AA-3", "Sta1">> : s \in ConnectedStates }
    \cup { <<s, "evt17", "AA-4", "Sta1">> : s \in ConnectedStates \ {"Sta13"} }
    \cup { <<s, "evt19", "AA-8", "Sta1">> : s \in ConnectedStates }

\* A state machine that leaves a pair it has no transition for alone.
UnlistedIgnored(state) == <<"none", state>>

\* The pair is not in the table: A-ABORT, and termination in Sta1.
Unlisted(state) == <<"abort", "Sta1">>

\* <<action, next state>> for the pair
findAction(state, event) ==
    LET rows == { row \in TransitionTable : row[1] = state /\ row[2] = event } IN
    IF rows = {} THEN Unlisted(state)
    ELSE LET row == CHOOSE row \in rows : TRUE IN <<row[3], row[4]>>

IsListed(state, event) == \E row \in TransitionTable : row[1] = state /\ row[2] = event

\* The client's data set: SOP class and instance, and its elements.
StoreDataSets == DataSets \cup {<<Element(TRUE, <<2>>)>>}
StoreRequests ==
    [messageID : MessageIDs, sopInstanceUID : {UIDb}, sopClassUID : {UIDa},
     encoderFails : {FALSE}, elements : StoreDataSets]

\* The P-DATA-TF PDU of a message: the command's PDV, then the data's if any.
FramePDataTF(command, data) ==
    <<PDV(1, TRUE, TRUE, encodeDIMSEMessage(command).bytes)>>
        \o (IF command.CommandDataSetType = CommandDataSetTypeNull THEN <<>>
            ELSE <<PDV(1, FALSE, TRUE, data)>>)

\* The CStore callback of the test's provider.
CStoreCallbackOutOfResources(sopClassUID, sopInstanceUID, data) == CStoreStatusOutOfResources

CStoreCallback(sopClassUID, sopInstanceUID, data) == StatusSuccess

\* The provider's dispatch of a request: the downcall that sends its response.
Dispatch(res) ==
    IF res.kind # "msg" \/ res.command.type # "C_STORE_RQ" THEN <<>>
    ELSE LET rq == res.command
             status == CStoreCallback(rq.AffectedSOPClassUID, rq.AffectedSOPInstanceUID,
                                      res.dataBytes)
         IN <<StateEvent("evt09",
                [command |-> C_STORE_RSP(rq.AffectedSOPClassUID, rq.MessageID,
                                         CommandDataSetTypeNull,
                                         rq.AffectedSOPInstanceUID, status),
                 data |-> <<>>])>>

\* What an action does: what it puts on the connection below the PDUs, the
\* PDUs it sends, its upcalls, the events it hands to its own side, and whether
\* it failed, which aborts the association.
Effect(tcp, send, up, down, failed) ==
    [tcp |-> tcp, send |-> send, up |-> up, down |-> down, failed |-> failed]

Pdu(kind) == WireItem(kind, <<>>)

\* The upcall (service user) or the dispatch (service provider) of the
\* message the assembler made of a P-DATA-TF.
Indicate(side, res) ==
    IF res.kind # "msg" THEN Effect(<<>>, <<Pdu("A-ABORT")>>, <<>>, <<>>, TRUE)
    ELSE IF side = "scu"
         THEN Effect(<<>>, <<>>, <<UpcallEvent("upcallEventData", res.command)>>, <<>>, FALSE)
         ELSE Effect(<<>>, <<>>, <<>>, Dispatch(res), FALSE)

DataIndication(side, items) == Indicate(side, addPDataTF(EmptyAssembler, items, contextIDMap).res)

\* The message given to the state machine when it is stepped through its table.
SampleCommand == C_STORE_RQ(UIDa, 1, 0, NonNullDataSetType, UIDb, <<>>, 0)

Perform(side, action, ev) ==
    CASE action = "AE-1" -> Effect(<<Pdu("connect")>>, <<>>, <<>>, <<>>, FALSE)
      [] action = "AE-2" -> Effect(<<>>, <<Pdu("A-ASSOCIATE-RQ")>>, <<>>, <<>>, FALSE)
      [] action = "AE-3" -> Effect(<<>>, <<>>,
                                   <<UpcallEvent("upcallEventHandshakeCompleted", NoMsg)>>,
                                   <<>>, FALSE)
      [] action = "AE-5" -> Effect(<<Pdu("connected")>>, <<>>, <<>>, <<>>, FALSE)
      [] action = "AE-6" -> Effect(<<>>, <<>>, <<>>, <<StateEvent("evt07", NoPayload)>>, FALSE)
      [] action = "AE-7" -> Effect(<<>>, <<Pdu("A-ASSOCIATE-AC")>>, <<>>, <<>>, FALSE)
      [] action = "AE-8" -> Effect(<<>>, <<Pdu("A-ASSOCIATE-RJ")>>, <<>>, <<>>, FALSE)
      [] action \in {"DT-1", "AR-7"} ->
            Effect(<<>>,
                   <<WireItem("P-DATA-TF", FramePDataTF(ev.payload.command, ev.payload.data))>>,
                   <<>>, <<>>, FALSE)
      [] action \in {"DT-2", "AR-6"} -> DataIndication(side, ev.payload)
      [] action = "AR-1" -> Effect(<<>>, <<Pdu("A-RELEASE-RQ")>>, <<>>, <<>>, FALSE)
      [] action = "AR-2" -> Effect(<<>>, <<>>, <<>>, <<StateEvent("evt14", NoPayload)>>, FALSE)
      [] action = "AR-4" -> Effect(<<>>, <<Pdu("A-RELEASE-RP")>>, <<>>, <<>>, FALSE)
      [] action \in {"AA-1", "AA-8", "abort"} ->
            Effect(<<>>, <<Pdu("A-ABORT")>>, <<>>, <<>>, FALSE)
      [] OTHER -> Effect(<<>>, <<>>, <<>>, <<>>, FALSE)

\* The reaction to an event: the action found, what it does, and the state it
\* ends in (Sta1 when the action failed).
Reaction(found, eff) ==
    [action |-> found[1], next |-> IF eff.failed THEN "Sta1" ELSE found[2], eff |-> eff]

React(side, state, ev) ==
    Reaction(findAction(state, ev.event), Perform(side, findAction(state, ev.event)[1], ev))

\* A shutdown that releases the resources every time it runs.
ReleasesAtEveryShutdown(released, next) == IF next = "Sta1" THEN 1 ELSE 0

\* The resources a reaction releases: those of the association, on the
\* first reaction that ends in Sta1.
ReleasesAt(released, next) == IF next = "Sta1" /\ released = 0 THEN 1 ELSE 0

NoLast == [side |-> "scu", state |-> "Sta1", event |-> "none", listed |-> TRUE,
           sent |-> <<>>, next |-> "Sta1"]

\* The I/O shim drops the PDUs of the reaction: drop-next-PDU
Dropped(side, r, faultsIn) ==
    mEnded[side] = "" /\ Len(r.eff.send) > 0 /\ Len(faultsIn) > 0 /\ Head(faultsIn) = "drop"

\* What the reaction writes to the connection, the close after it included.
Written(side, r, faultsIn) ==
    IF mEnded[side] # "" THEN <<>>
    ELSE r.eff.tcp \o (IF Dropped(side, r, faultsIn) THEN <<>> ELSE r.eff.send)
                   \o (IF r.next = "Sta1" THEN <<Pdu("closed")>> ELSE <<>>)

\* The reaction r of one side's state machine to the event ev takes effect.
Apply(side, ev, r, wireIn, downIn, faultsIn) ==
    /\ mState' = [mState EXCEPT ![side] = r.next]
    /\ mEnded' = [mEnded EXCEPT ![side] = IF @ = "" /\ r.next = "Sta1" THEN r.action ELSE @]
    /\ mReleased' = [mReleased EXCEPT ![side] = @ + ReleasesAt(@, r.next)]
    /\ mWire' = [s \in Sides |-> IF s = side THEN wireIn
                                 ELSE mWire[s] \o Written(side, r, faultsIn)]
    /\ mDown' = [mDown EXCEPT ![side] = IF mEnded[side] = "" THEN downIn \o r.eff.down
                                        ELSE downIn]
    /\ mUp' = IF side = "scu" /\ mEnded[side] = ""
              THEN [q |-> mUp.q \o r.eff.up, closed |-> r.next = "Sta1"]
              ELSE mUp
    /\ mFaults' = [mFaults EXCEPT ![side] = IF Dropped(side, r, faultsIn) THEN Tail(faultsIn)
                                            ELSE faultsIn]
    /\ mLast' = [side |-> side, state |-> mState[side], event |-> ev.event,
                 listed |-> IsListed(mState[side], ev.event), sent |-> r.eff.send,
                 next |-> r.next]

\* One side's state machine reacts to one event; wireIn, downIn and faultsIn
\* are its connection, its queue and its fault script once the event is taken.
Handle(side, ev, wireIn, downIn, faultsIn) ==
    \E r \in {React(side, mState[side], ev)} : Apply(side, ev, r, wireIn, downIn, faultsIn)

\* The state machine reads the next PDU (or the close) from its connection.
MachineReads(side) ==
    /\ mEnded[side] = ""
    /\ Len(mWire[side]) > 0
    /\ Handle(side, EventOfWireItem(Head(mWire[side])), Tail(mWire[side]), mDown[side],
              mFaults[side])
    /\ UNCHANGED <<mPc, mClient, mCalls>>
    /\ UNCHANGED <<codecVars, asmVars, scuVars, srvVars, lockVars>>

\* The state machine takes the next event of its downcall queue.
MachineTakes(side) ==
    /\ Len(mDown[side]) > 0
    /\ Handle(side, Head(mDown[side]), mWire[side], Tail(mDown[side]), mFaults[side])
    /\ UNCHANGED <<mPc, mClient, mCalls>>
    /\ UNCHANGED <<codecVars, asmVars, scuVars, srvVars, lockVars>>

\* runClient: su.Connect(serverAddr) submits evt01
ClientConnect ==
    /\ mPc = "connect"
    /\ mDown' = [mDown EXCEPT !["scu"] = Append(@, StateEvent("evt01", NoPayload))]
    /\ mPc' = "connecting"
    /\ UNCHANGED <<mState, mEnded, mReleased, mWire, mUp, mClient, mFaults, mLast, mCalls>>
    /\ UNCHANGED <<codecVars, asmVars, scuVars, srvVars, lockVars>>

\* Connect returns on the handshake's upcall, or on the closed upcall channel;
\* runClient goes on to the C-STORE either way.
ClientConnected ==
    /\ mPc = "connecting"
    /\ \/ /\ Len(mUp.q) > 0
          /\ mUp' = [mUp EXCEPT !.q = Tail(@)]
          /\ mClient' = [mClient EXCEPT !.connect = ""]
       \/ /\ Len(mUp.q) = 0
          /\ mUp.closed
          /\ mClient' = [mClient EXCEPT !.connect = "aborted"]
          /\ UNCHANGED mUp
    /\ mPc' = "cstore"
    /\ UNCHANGED <<mState, mEnded, mReleased, mWire, mDown, mFaults, mLast, mCalls>>
    /\ UNCHANGED <<codecVars, asmVars, scuVars, srvVars, lockVars>>

\* runClient: su.CStoreRaw(data), up to the send on the downcall channel
ClientCStore ==
    /\ mPc = "cstore"
    /\ LET in == mClient.request IN
        /\ mDown' = [mDown EXCEPT !["scu"] =
                        @ \o [i \in 1..Len(DowncallsOf(in)) |->
                                StateEvent("evt09", [command |-> DowncallsOf(in)[i].command,
                                                     data |-> DowncallsOf(in)[i].data])]]
        /\ mClient' = [mClient EXCEPT !.cstore = PreCheckError(in)]
        /\ mPc' = IF PreCheckError(in) = "" THEN "storing" ELSE "release"
    /\ UNCHANGED <<mState, mEnded, mReleased, mWire, mUp, mFaults, mLast, mCalls>>
    /\ UNCHANGED <<codecVars, asmVars, scuVars, srvVars, lockVars>>

\* The C-STORE's wait for its response: an upcall, or the closed channel.
ClientCStoreReturns ==
    /\ mPc = "storing"
    /\ \/ /\ Len(mUp.q) > 0
          /\ LET r == OnUpcall(mClient.request, Head(mUp.q)) IN
                /\ mPc' = IF r.pc = "done" THEN "release" ELSE r.pc
                /\ mClient' = [mClient EXCEPT !.cstore = r.err]
          /\ mUp' = [mUp EXCEPT !.q = Tail(@)]
       \/ /\ Len(mUp.q) = 0
          /\ mUp.closed
          /\ mPc' = "release"
          /\ mClient' = [mClient EXCEPT !.cstore = "Connection closed while waiting for C-STORE response"]
          /\ UNCHANGED mUp
    /\ UNCHANGED <<mState, mEnded, mReleased, mWire, mDown, mFaults, mLast, mCalls>>
    /\ UNCHANGED <<codecVars, asmVars, scuVars, srvVars, lockVars>>

\* runClient: su.Release() submits evt11
ClientRelease ==
    /\ mPc = "release"
    /\ mDown' = [mDown EXCEPT !["scu"] = Append(@, StateEvent("evt11", NoPayload))]
    /\ mPc' = "releasing"
    /\ UNCHANGED <<mState, mEnded, mReleased, mWire, mUp, mClient, mFaults, mLast, mCalls>>
    /\ UNCHANGED <<codecVars, asmVars, scuVars, srvVars, lockVars>>

\* Release returns when the state machine has ended in Sta1.
ClientReleased ==
    /\ mPc = "releasing"
    /\ mState["scu"] = "Sta1"
    /\ mEnded["scu"] # ""
    /\ mClient' = [mClient EXCEPT !.release = IF mEnded["scu"] = "AR-3" THEN "" ELSE "aborted"]
    /\ mPc' = "end"
    /\ UNCHANGED <<mState, mEnded, mReleased, mWire, mDown, mUp, mFaults, mLast, mCalls>>
    /\ UNCHANGED <<codecVars, asmVars, scuVars, srvVars, lockVars>>

Machines == \E side \in Sides : MachineReads(side) \/ MachineTakes(side)
Client ==
    \/ ClientConnect
    \/ ClientConnected
    \/ ClientCStore
    \/ ClientCStoreReturns
    \/ ClientRelease
    \/ ClientReleased

\* The fault injector: inject-abort-at-state-X
FaultAbort(side) ==
    /\ mEnded[side] = ""
    /\ mState[side] # "Sta1"
    /\ Len(mFaults[side]) > 0
    /\ Head(mFaults[side]) = "abort"
    /\ Handle(side, StateEvent("evt15", NoPayload), mWire[side], mDown[side],
              Tail(mFaults[side]))
    /\ UNCHANGED <<mPc, mClient, mCalls>>
    /\ UNCHANGED <<codecVars, asmVars, scuVars, srvVars, lockVars>>

\* The fault injector: delay
FaultDelay(side) ==
    /\ Len(mFaults[side]) > 0
    /\ Head(mFaults[side]) = "delay"
    /\ mFaults' = [mFaults EXCEPT ![side] = Tail(@)]
    /\ UNCHANGED <<mState, mEnded, mReleased, mWire, mDown, mUp, mPc, mClient, mLast, mCalls>>
    /\ UNCHANGED <<codecVars, asmVars, scuVars, srvVars, lockVars>>

\* Nothing is on its way to the side, and neither the client nor the fault
\* injector has a step to take: what the side waits for is not coming soon.
Quiet ==
    /\ \A side \in Sides : mEnded[side] = "" => (Len(mWire[side]) = 0 /\ Len(mDown[side]) = 0)
    /\ mPc \in {"connecting", "storing", "releasing", "end", "panic"}
    /\ mPc = "connecting" => (Len(mUp.q) = 0 /\ ~mUp.closed)
    /\ mPc = "storing" => (Len(mUp.q) = 0 /\ ~mUp.closed)
    /\ mPc = "releasing" => mEnded["scu"] = ""
    /\ \A side \in Sides : IF Len(mFaults[side]) = 0 THEN TRUE
                            ELSE Head(mFaults[side]) = "drop"

\* The ARTIM timer of Sta2 and Sta13 expires.
ArtimExpires(side) ==
    /\ mEnded[side] = ""
    /\ mState[side] \in {"Sta2", "Sta13"}
    /\ Quiet
    /\ Handle(side, StateEvent("evt18", NoPayload), mWire[side], mDown[side], mFaults[side])
    /\ UNCHANGED <<mPc, mClient, mCalls>>
    /\ UNCHANGED <<codecVars, asmVars, scuVars, srvVars, lockVars>>

\* After runClient: the user calls Release or Abort once more.
UserShutsDown(event) ==
    /\ mPc = "end"
    /\ mCalls < MaxShutdownCalls
    /\ mCalls' = mCalls + 1
    /\ mDown' = [mDown EXCEPT !["scu"] = Append(@, StateEvent(event, NoPayload))]
    /\ UNCHANGED <<mState, mEnded, mReleased, mWire, mUp, mPc, mClient, mFaults, mLast>>
    /\ UNCHANGED <<codecVars, asmVars, scuVars, srvVars, lockVars>>

\* The close of the TCP connection is observed once more.
CloseObserved(side) ==
    /\ mPc = "end"
    /\ mEnded[side] # ""
    /\ mCalls < MaxShutdownCalls
    /\ mCalls' = mCalls + 1
    /\ Handle(side, StateEvent("evt17", NoPayload), mWire[side], mDown[side], mFaults[side])
    /\ UNCHANGED <<mPc, mClient>>
    /\ UNCHANGED <<codecVars, asmVars, scuVars, srvVars, lockVars>>

FaultKinds == {"drop", "abort", "delay"}
RECURSIVE ScriptsUpTo(_)
ScriptsUpTo(n) ==
    IF n = 0 THEN {<<>>}
    ELSE ScriptsUpTo(n - 1) \cup { Append(script, kind) : script \in ScriptsUpTo(n - 1),
                                                         kind \in FaultKinds }
FaultScripts == ScriptsUpTo(MaxFaults)

\* runClient is about to connect to the provider the test has started.
AssocStart(request, faults) ==
    /\ mState = [side \in Sides |-> "Sta1"]
    /\ mEnded = [side \in Sides |-> ""]
    /\ mReleased = [side \in Sides |-> 0]
    /\ mWire = [side \in Sides |-> <<>>]
    /\ mDown = [side \in Sides |-> <<>>]
    /\ mUp = [q |-> <<>>, closed |-> FALSE]
    /\ mPc = "connect"
    /\ mClient = [connect |-> "", cstore |-> "", release |-> "", request |-> request]
    /\ mFaults = faults
    /\ mLast = NoLast
    /\ mCalls = 0

AssocInit == \E request \in StoreRequests : AssocStart(request, [side \in Sides |-> <<>>])

AssocFaultsInit ==
    \E request \in StoreRequests, faults \in [Sides -> FaultScripts] :
        AssocStart(request, faults)

\* One data set under every fault script, for the shutdown calls after the session.
AssocShutdownInit ==
    \E request \in {r \in StoreRequests : r.messageID = 1 /\ Len(BodyBytes(r)) = 1},
       faults \in [Sides -> FaultScripts] :
        AssocStart(request, faults)

AssocIdle ==
    /\ mState = [side \in Sides |-> "Sta1"]
    /\ mEnded = [side \in Sides |-> "idle"]
    /\ mReleased = [side \in Sides |-> 0]
    /\ mWire = [side \in Sides |-> <<>>]
    /\ mDown = [side \in Sides |-> <<>>]
    /\ mUp = [q |-> <<>>, closed |-> TRUE]
    /\ mPc = "idle"
    /\ mClient = [connect |-> "", cstore |-> "", release |-> "",
               request |-> [messageID |-> 1, sopInstanceUID |-> UIDb, sopClassUID |-> UIDa,
                            encoderFails |-> FALSE, elements |-> <<>>]]
    /\ mFaults = [side \in Sides |-> <<>>]
    /\ mLast = NoLast
    /\ mCalls = 0

\* The state machine in any state, given any event.
SampleEvent(event) ==
    CASE event = "evt09" -> StateEvent(event, [command |-> SampleCommand, data |-> <<170>>])
      [] event = "evt10" -> StateEvent(event, FramePDataTF(SampleCommand, <<170>>))
      [] OTHER -> StateEvent(event, NoPayload)

TableInit ==
    /\ \E side \in Sides, state \in States :
            mState = [s \in Sides |-> IF s = side THEN state ELSE "Sta1"]
    /\ mEnded = [side \in Sides |-> ""]
    /\ mReleased = [side \in Sides |-> 0]
    /\ mWire = [side \in Sides |-> <<>>]
    /\ mDown = [side \in Sides |-> <<>>]
    /\ mUp = [q |-> <<>>, closed |-> FALSE]
    /\ mPc = "idle"
    /\ mClient = [connect |-> "", cstore |-> "", release |-> "",
               request |-> [messageID |-> 1, sopInstanceUID |-> UIDb, sopClassUID |-> UIDa,
                            encoderFails |-> FALSE, elements |-> <<>>]]
    /\ mFaults = [side \in Sides |-> <<>>]
    /\ mLast = NoLast
    /\ mCalls = 0

\* The state machine reacts until it has sent or handed on something.
TableStep(side, event) ==
    /\ mEnded[side] = ""
    /\ mLast.event = "none" \/ mLast.side = side
    /\ Len(mWire[Peer(side)]) = 0
    /\ Len(mDown[side]) = 0
    /\ Len(mUp.q) = 0
    /\ Handle(side, SampleEvent(event), <<>>, <<>>, <<>>)
    /\ UNCHANGED <<mPc, mClient, mCalls>>
    /\ UNCHANGED <<codecVars, asmVars, scuVars, srvVars, lockVars>>

-----------------------------------------------------------------------------
(* The sample server's shared state: server.mu, server.datasets, server.pathSeq *)

MaxCallbacks == 3       \* callbacks running at once

Callers == 1..MaxCallbacks
Kinds == {"store", "find", "move"}

\* ss.pathSeq++ on an int32
Int32Inc(n) == IF n = 2147483647 THEN -2147483647 - 1 ELSE n + 1

RECURSIVE Decimal(_)
Decimal(n) == IF n < 10 THEN <<n>> ELSE Decimal(n \div 10) \o <<n % 10>>

\* the digits of n, with zeros in front up to the width
ZeroPadded(n, width) ==
    LET d == Decimal(n) IN
    IF Len(d) >= width THEN d ELSE [i \in 1..(width - Len(d)) |-> 0] \o d

\* fmt.Sprintf("image%04d.dcm", seq)
ImageName(seq) ==
    <<"image">> \o (IF seq < 0 THEN <<"-">> \o ZeroPadded(-seq, 3) ELSE ZeroPadded(seq, 4)) \o <<".dcm">>

\* path.Join(*outputFlag, fmt.Sprintf("image%04d.dcm", ss.pathSeq))
OutputPath(seq) == <<"incoming">> \o ImageName(seq)

NoPath == <<>>

\* a file listDicomFiles found under -dir when the server started
ListedPath == <<"a.dcm">>

\* ss.mu.Lock() gives the callback the mutex once nobody holds it
LockWithoutWaiting(g) ==
    /\ kPc[g] = "lock"
    /\ kMu' = g
    /\ kPc' = [kPc EXCEPT ![g] = IF kKind[g] = "store" THEN "increment" ELSE "range"]
    /\ UNCHANGED <<kPathSeq, kDatasets, kKind, kPath, kStatus, kCreated, kSeen, kTorn>>
    /\ UNCHANGED <<codecVars, asmVars, scuVars, srvVars, assocVars>>

Lock(g) ==
    /\ kPc[g] = "lock"
    /\ kMu = 0
    /\ kMu' = g
    /\ kPc' = [kPc EXCEPT ![g] = IF kKind[g] = "store" THEN "increment" ELSE "range"]
    /\ UNCHANGED <<kPathSeq, kDatasets, kKind, kPath, kStatus, kCreated, kSeen, kTorn>>
    /\ UNCHANGED <<codecVars, asmVars, scuVars, srvVars, assocVars>>

\* ss.pathSeq++
StoreIncrement(g) ==
    /\ kPc[g] = "increment"
    /\ kPathSeq' = Int32Inc(kPathSeq)
    /\ kPc' = [kPc EXCEPT ![g] = "path"]
    /\ UNCHANGED <<kMu, kDatasets, kKind, kPath, kStatus, kCreated, kSeen, kTorn>>
    /\ UNCHANGED <<codecVars, asmVars, scuVars, srvVars, assocVars>>

\* path := path.Join(*outputFlag, fmt.Sprintf("image%04d.dcm", ss.pathSeq))
StorePath(g) ==
    /\ kPc[g] = "path"
    /\ kPath' = [kPath EXCEPT ![g] = OutputPath(kPathSeq)]
    /\ kPc' = [kPc EXCEPT ![g] = "create"]
    /\ UNCHANGED <<kMu, kPathSeq, kDatasets, kKind, kStatus, kCreated, kSeen, kTorn>>
    /\ UNCHANGED <<codecVars, asmVars, scuVars, srvVars, assocVars>>

\* os.Create(path), again after os.MkdirAll when it fails; the file system decides
StoreCreate(g, ok) ==
    /\ kPc[g] = "create"
    /\ kCreated' = Append(kCreated, kPath[g])
    /\ kPc' = [kPc EXCEPT ![g] = IF ok THEN "write" ELSE "unlock"]
    /\ kStatus' = [kStatus EXCEPT ![g] = IF ok THEN "" ELSE "StatusNotAuthorized"]
    /\ UNCHANGED <<kMu, kPathSeq, kDatasets, kKind, kPath, kSeen, kTorn>>
    /\ UNCHANGED <<codecVars, asmVars, scuVars, srvVars, assocVars>>

\* the file header and the data are written and the file is closed, then
\* dicom.ReadDataSetFromFile parses it; res is "error" (write or close
\* failed), "unparsed" (the file does not parse) or "parsed"
StoreWrite(g, res) ==
    /\ kPc[g] = "write"
    /\ kPc' = [kPc EXCEPT ![g] = IF res = "parsed" THEN "register" ELSE "unlock"]
    /\ kStatus' = [kStatus EXCEPT ![g] =
            CASE res = "error" -> "StatusNotAuthorized"
              [] res = "unparsed" -> "Success"
              [] OTHER -> ""]
    /\ UNCHANGED <<kMu, kPathSeq, kDatasets, kKind, kPath, kCreated, kSeen, kTorn>>
    /\ UNCHANGED <<codecVars, asmVars, scuVars, srvVars, assocVars>>

\* ss.datasets[path] = ds: the assignment starts changing the map ...
StoreRegister(g) ==
    /\ kPc[g] = "register"
    /\ kPc' = [kPc EXCEPT ![g] = "assigning"]
    /\ UNCHANGED <<kMu, kPathSeq, kDatasets, kKind, kPath, kStatus, kCreated, kSeen, kTorn>>
    /\ UNCHANGED <<codecVars, asmVars, scuVars, srvVars, assocVars>>

\* ... and the key is in the map when it is over
StoreRegistered(g) ==
    /\ kPc[g] = "assigning"
    /\ kDatasets' = kDatasets \cup {kPath[g]}
    /\ kPc' = [kPc EXCEPT ![g] = "unlock"]
    /\ kStatus' = [kStatus EXCEPT ![g] = "Success"]
    /\ UNCHANGED <<kMu, kPathSeq, kKind, kPath, kCreated, kSeen, kTorn>>
    /\ UNCHANGED <<codecVars, asmVars, scuVars, srvVars, assocVars>>

\* a map assignment is under way
Assigning == \E g \in Callers : kPc[g] = "assigning"

\* for path, ds := range ss.datasets: one iteration
FindRange(g, key) ==
    /\ kPc[g] = "range"
    /\ key \in kDatasets \ kSeen[g]
    /\ kSeen' = [kSeen EXCEPT ![g] = @ \cup {key}]
    /\ kTorn' = (kTorn \/ Assigning)
    /\ UNCHANGED <<kMu, kPathSeq, kDatasets, kPc, kKind, kPath, kStatus, kCreated>>
    /\ UNCHANGED <<codecVars, asmVars, scuVars, srvVars, assocVars>>

\* the range loop is over when it has produced every key
FindRangeEnd(g) ==
    /\ kPc[g] = "range"
    /\ kDatasets \ kSeen[g] = {}
    /\ kPc' = [kPc EXCEPT ![g] = "unlock"]
    /\ UNCHANGED <<kMu, kPathSeq, kDatasets, kKind, kPath, kStatus, kCreated, kSeen, kTorn>>
    /\ UNCHANGED <<codecVars, asmVars, scuVars, srvVars, assocVars>>

\* defer ss.mu.Unlock(); onCStore has returned after it, and the goroutine of
\* onCFind and onCMoveOrCGet goes on to send its results
Unlock(g) ==
    /\ kPc[g] = "unlock"
    /\ kMu' = 0
    /\ kPc' = [kPc EXCEPT ![g] = IF kKind[g] = "store" THEN "done" ELSE "respond"]
    /\ UNCHANGED <<kPathSeq, kDatasets, kKind, kPath, kStatus, kCreated, kSeen, kTorn>>
    /\ UNCHANGED <<codecVars, asmVars, scuVars, srvVars, assocVars>>

\* the goroutine sends what it found and closes its channel
FindRespond(g) ==
    /\ kPc[g] = "respond"
    /\ kPc' = [kPc EXCEPT ![g] = "done"]
    /\ UNCHANGED <<kMu, kPathSeq, kDatasets, kKind, kPath, kStatus, kCreated, kSeen, kTorn>>
    /\ UNCHANGED <<codecVars, asmVars, scuVars, srvVars, assocVars>>

\* main: ss := server{mu: &sync.Mutex{}, datasets: datasets}
LockInit ==
    /\ kMu = 0
    /\ kPathSeq = 0
    /\ kDatasets \in {{}, {ListedPath}}
    /\ kPc = [g \in Callers |-> "lock"]
    /\ kKind \in [Callers -> Kinds]
    /\ kPath = [g \in Callers |-> NoPath]
    /\ kStatus = [g \in Callers |-> ""]
    /\ kCreated = <<>>
    /\ kSeen = [g \in Callers |-> {}]
    /\ kTorn = FALSE

LockIdle ==
    /\ kMu = 0
    /\ kPathSeq = 0
    /\ kDatasets = {}
    /\ kPc = [g \in Callers |-> "done"]
    /\ kKind = [g \in Callers |-> "store"]
    /\ kPath = [g \in Callers |-> NoPath]
    /\ kStatus = [g \in Callers |-> ""]
    /\ kCreated = <<>>
    /\ kSeen = [g \in Callers |-> {}]
    /\ kTorn = FALSE

-----------------------------------------------------------------------------
(* Specifications, one per component *)

InitCodec == CodecInit /\ AsmIdle /\ ScuIdle /\ SrvIdle /\ AssocIdle /\ LockIdle
NextCodec == CodecNext
SpecCodec == InitCodec /\ [][NextCodec]_vars

InitAsm == CodecIdle /\ AsmInit /\ ScuIdle /\ SrvIdle /\ AssocIdle /\ LockIdle
NextAsm == AsmNext
SpecAsm == InitAsm /\ [][NextAsm]_vars

InitScu == CodecIdle /\ AsmIdle /\ ScuInit /\ SrvIdle /\ AssocIdle /\ LockIdle
NextScu == ScuNext
SpecScu == InitScu /\ [][NextScu]_vars

InitSrv == CodecIdle /\ AsmIdle /\ ScuIdle /\ SrvInit /\ AssocIdle /\ LockIdle

NextFind ==
    \/ SrvFindMatchingFiles
    \/ FindSendErr
    \/ FindSend
    \/ SrvClose
    \/ SrvRecv
    \/ SrvRecvEnd
SpecFind == InitSrv /\ [][NextFind]_vars
\* The goroutine runs while it can, and the consumer keeps receiving.
SpecFindFair == SpecFind /\ WF_vars(FindProducer) /\ WF_vars(SrvConsumer)

NextMove ==
    \/ SrvFindMatchingFiles
    \/ MoveSendErr
    \/ MoveSend
    \/ SrvClose
    \/ SrvRecv
    \/ SrvRecvEnd
SpecMove == InitSrv /\ [][NextMove]_vars

InitAssoc == CodecIdle /\ AsmIdle /\ ScuIdle /\ SrvIdle /\ AssocInit /\ LockIdle
NextAssoc == Machines \/ Client
SpecAssoc == InitAssoc /\ [][NextAssoc]_vars

Faults == \E side \in Sides : FaultAbort(side) \/ FaultDelay(side) \/ ArtimExpires(side)
InitFaults == CodecIdle /\ AsmIdle /\ ScuIdle /\ SrvIdle /\ AssocFaultsInit /\ LockIdle
NextFaults == Machines \/ Client \/ Faults
SpecFaults == InitFaults /\ [][NextFaults]_vars

Shutdowns == (\E event \in {"evt11", "evt15"} : UserShutsDown(event))
                \/ (\E side \in Sides : CloseObserved(side))
NextShutdown == Machines \/ Client \/ Faults \/ Shutdowns
InitShutdown == CodecIdle /\ AsmIdle /\ ScuIdle /\ SrvIdle /\ AssocShutdownInit /\ LockIdle
SpecShutdown == InitShutdown /\ [][NextShutdown]_vars

InitTable == CodecIdle /\ AsmIdle /\ ScuIdle /\ SrvIdle /\ TableInit /\ LockIdle
NextTable == \E side \in Sides, event \in Events : TableStep(side, event)
SpecTable == InitTable /\ [][NextTable]_vars

NextScuSeq == ScuNext \/ \E in \in NextInputs(uIn) : ScuCallAgain(in)
\* Calls in sequence, all with the data set of two elements.
InitScuSeq == InitScu /\ Len(uIn.elements) = 2
SpecScuSeq == InitScuSeq /\ [][NextScuSeq]_vars

InitLock == CodecIdle /\ AsmIdle /\ ScuIdle /\ SrvIdle /\ AssocIdle /\ LockInit
NextLock ==
    \/ \E g \in Callers : Lock(g)
    \/ \E g \in Callers : StoreIncrement(g)
    \/ \E g \in Callers : StorePath(g)
    \/ \E g \in Callers, ok \in BOOLEAN : StoreCreate(g, ok)
    \/ \E g \in Callers, res \in {"error", "unparsed", "parsed"} : StoreWrite(g, res)
    \/ \E g \in Callers : StoreRegister(g)
    \/ \E g \in Callers : StoreRegistered(g)
    \/ \E g \in Callers, key \in kDatasets : FindRange(g, key)
    \/ \E g \in Callers : FindRangeEnd(g)
    \/ \E g \in Callers : Unlock(g)
    \/ \E g \in Callers : FindRespond(g)
SpecLock == InitLock /\ [][NextLock]_vars

-----------------------------------------------------------------------------
(* Properties of the assembler (SpecAsm) *)

\* The PDVs of the history that are command (data) fragments, in arrival order.
FedOf(fed, isCommand) == SelectSeq(fed, LAMBDA p : p.Command = isCommand)

\* The concatenation of the values of a sequence of PDVs.
RECURSIVE FedBytes(_)
FedBytes(fed) == IF Len(fed) = 0 THEN <<>> ELSE FragBytes[Head(fed).Value] \o FedBytes(Tail(fed))

FedLasts(fed, isCommand) == Len(SelectSeq(fed, LAMBDA p : p.Command = isCommand /\ p.Last))

\* The command the peer sent in the fragments of the history, as its elements.
FedElements == ReadElements(FedBytes(FedOf(aFed, TRUE)))
FedDataSetType == getUInt16FromElements(FedElements.elems, TagCommandDataSetType)

\* The commands of the inputs that are valid: every required element, and a
\* response declares no data set.
ValidCommands == {RqWithData, RqNull, RspNull}

IsPrefix(s, t) == Len(s) <= Len(t) /\ SubSeq(t, 1, Len(s)) = s

\* The history is the fragments of one valid C-STORE-RQ or C-STORE-RSP, all on
\* one context, with Last at most once on each side.
FedWellFormed ==
    /\ Len(aFed) > 0
    /\ \A i \in 1..Len(aFed) : aFed[i].ContextID = aFed[1].ContextID
    /\ FedLasts(aFed, TRUE) <= 1
    /\ FedLasts(aFed, FALSE) <= 1
    /\ \E c \in ValidCommands : IsPrefix(FedBytes(FedOf(aFed, TRUE)), c)
    /\ FedLasts(aFed, TRUE) = 1 => FedBytes(FedOf(aFed, TRUE)) \in ValidCommands

\* The command's Last fragment has arrived, and the command declares no data
\* set or the data's Last fragment has arrived.
FedComplete ==
    /\ FedLasts(aFed, TRUE) = 1
    /\ \/ FedDataSetType.v = CommandDataSetTypeNull
       \/ FedLasts(aFed, FALSE) = 1

\* C1: for the fragments of a well-formed command, addPDataTF emits the message
\* exactly when the command's Last fragment has arrived and the command declares
\* no data set or the data's Last fragment has arrived; before that it returns
\* no command and no error; after an emission the assembler is empty.
C1_EmitsExactlyWhenComplete ==
    FedWellFormed =>
        /\ (aRes.kind = "msg") <=> FedComplete
        /\ ~FedComplete => aRes.kind = "none"
        /\ aRes.kind = "msg" => a = EmptyAssembler

\* C2: a PDV whose contextID differs from the one the assembler adopted makes
\* addPDataTF return an error; it neither panics nor emits a message.
C2_MixedContextReturnsError ==
    (\E i, j \in 1..Len(aFed) : aFed[i].ContextID # aFed[j].ContextID) =>
        aRes.kind = "err"

\* C3: when the command (a C-STORE-RQ as well as a C-STORE-RSP) declares
\* CommandDataSetType Null, the message is emitted as soon as the command's Last
\* fragment arrives, with no data fragment and without failing.
C3_NullDataSetEmitsOnCommandLast ==
    ( /\ FedWellFormed
      /\ FedOf(aFed, FALSE) = <<>>
      /\ FedLasts(aFed, TRUE) = 1
      /\ FedDataSetType.v = CommandDataSetTypeNull ) =>
        aRes.kind = "msg"

\* C4: a message is emitted only by the last PDV of its P-DATA-TF: no PDV that
\* follows the completing fragment in the PDU is merged into the emitted message
\* or dropped by the reset.
C4_NoResidueInEmittedMessage ==
    aRes.kind = "msg" => aCompleteAt = Len(aPdu)

-----------------------------------------------------------------------------
(* Properties of the codec (SpecCodec) *)

\* C5: decoding fails whenever an element the message type requires is absent.
C5_MissingRequiredElementFails ==
    (cPc = "decoded" /\ cRemoved \in RequiredTags(cMsg.type)) => cDec.res = "err"

\* C6: decoding a command whose CommandField is no known message type fails
\* with a decode error; it does not panic.
C6_UnknownCommandFieldIsError ==
    (cPc = "decoded" /\ cField = UnknownCommandField) => cDec.res = "err"

\* C7: for a C-STORE-RQ with non-empty MoveOriginator fields, decoding its
\* encoding returns the same MoveOriginatorApplicationEntityTitle and
\* MoveOriginatorMessageID.
C7_MoveOriginatorRoundTrip ==
    ( /\ cPc = "decoded"
      /\ cRemoved = NoTag
      /\ cField = 0
      /\ cMsg.type = "C_STORE_RQ"
      /\ cMsg.MoveOriginatorApplicationEntityTitle # <<>>
      /\ cMsg.MoveOriginatorMessageID # 0 ) =>
        /\ cDec.res = "ok"
        /\ cDec.msg.MoveOriginatorApplicationEntityTitle = cMsg.MoveOriginatorApplicationEntityTitle
        /\ cDec.msg.MoveOriginatorMessageID = cMsg.MoveOriginatorMessageID

\* C8: the bytes encodeDIMSEMessage returns begin with the CommandGroupLength
\* element (0000,0000), whose value is the number of bytes that follow it.
C8_CommandGroupLengthIsExact ==
    cEnc.res = "ok" =>
        /\ Len(cEnc.bytes) >= 8 + FromLE32(SubSeq(cEnc.bytes, 5, 8))
        /\ Tag(FromLE16(SubSeq(cEnc.bytes, 1, 2)), FromLE16(SubSeq(cEnc.bytes, 3, 4)))
               = TagCommandGroupLength
        /\ FromLE32(SubSeq(cEnc.bytes, 5, 8)) = 4
        /\ FromLE32(SubSeq(cEnc.bytes, 9, 12)) = Len(cEnc.bytes) - 12

C8_Witness ==
    /\ cPc = "encoded"
    /\ cEnc.res = "ok"
    /\ cMsg.type = "C_STORE_RSP"
    /\ Len(cEnc.bytes) > 12

-----------------------------------------------------------------------------
(* Properties of the service user's C-STORE (SpecScu) *)

\* The data set lacks a UID, its SOP class has no context, or the body encoder fails.
PreCheckFails(in) ==
    \/ in.sopInstanceUID = None
    \/ in.sopClassUID = None
    \/ in.sopClassUID \notin contextManager
    \/ in.encoderFails

\* C9: a C-STORE whose SOP class has no presentation context (or whose data set
\* lacks a UID, or whose body encoder fails) returns an error, having sent no
\* downcall event and consumed no upcall.
C9_FailedPreChecksSendNothing ==
    (uPc # "start" /\ PreCheckFails(uIn)) =>
        /\ uPc = "done"
        /\ uErr # ""
        /\ downcallCh = <<>>
        /\ uTaken = <<>>

C9_Witness ==
    /\ uPc = "done"
    /\ uIn.sopInstanceUID # None
    /\ uIn.sopClassUID = UIDb
    /\ ~uIn.encoderFails
    /\ uErr = "no-matching-context"
    /\ Len(upcallCh.q) > 0

\* C10: the request with MessageID M completes (or fails) only on a response
\* whose MessageIDBeingRespondedTo is M.
C10_CompletesOnlyOnOwnMessageID ==
    (uPc = "done" /\ Len(uTaken) > 0) =>
        uTaken[Len(uTaken)].command.MessageIDBeingRespondedTo = uIn.messageID

\* C11: when the C-STORE-RSP carries a non-Success status the call returns an
\* error made from that response, and the call sends nothing but its own evt09
\* request on the downcall channel (no release, no abort) and leaves the upcall
\* channel as it is, so that a later call on the same channels can be made.
C11_FailedStatusLeavesAssociationOpen ==
    ( /\ uPc = "done"
      /\ Len(uTaken) > 0
      /\ uTaken[Len(uTaken)].command.Status # StatusSuccess ) =>
        /\ uErr = "C_STORE failed"
        /\ uErrArg.Status = uTaken[Len(uTaken)].command.Status
        /\ \A i \in 1..Len(downcallCh) : downcallCh[i].event = "evt09"
        /\ downcallCh[Len(downcallCh)] = Evt09(uIn)
        /\ Len(downcallCh) <= Len(uReturned) + 1
        /\ (Len(uReturned) + 1 < MaxCalls => \A in \in NextInputs(uIn) : ENABLED ScuCallAgain(in))

\* The second call on the channels is answered with Success after the first
\* failed on the status of its response.
C11_Witness ==
    /\ Len(uReturned) = 1
    /\ uReturned[1] = "C_STORE failed"
    /\ uPc = "done"
    /\ Len(uTaken) = 1
    /\ uTaken[1].command.Status = StatusSuccess
    /\ uErr = ""
    /\ Len(downcallCh) = 2

\* The bytes of the elements outside the metadata group, first to last.
RECURSIVE BodyOf(_)
BodyOf(elements) ==
    IF Len(elements) = 0 THEN <<>>
    ELSE (IF Head(elements).metadata THEN <<>> ELSE Head(elements).bytes) \o BodyOf(Tail(elements))

\* C22: a C-STORE that passes its pre-checks sends exactly one evt09 downcall,
\* with the C-STORE-RQ of the given MessageID, a non-null CommandDataSetType
\* and the encoded data set, and takes upcalls only after it; when the upcall
\* channel is closed with no response in it, the call returns the
\* connection-closed error: it neither blocks nor reports success.
C22_OneRequestThenResponseOrClosed ==
    (uPc # "start" /\ ~PreCheckFails(uIn)) =>
        /\ Len(downcallCh) = 1
        /\ downcallCh[1].event = "evt09"
        /\ downcallCh[1].command.type = "C_STORE_RQ"
        /\ downcallCh[1].command.MessageID = uIn.messageID
        /\ downcallCh[1].command.CommandDataSetType # CommandDataSetTypeNull
        /\ downcallCh[1].data = BodyOf(uIn.elements)
        /\ uPc = "waiting" => Len(uTaken) = 0
        /\ (uPc = "waiting" /\ upcallCh.closed /\ Len(upcallCh.q) = 0) => ENABLED ScuReceiveClosed
        /\ (uPc = "done" /\ Len(uTaken) = 0) =>
                /\ upcallCh.closed
                /\ uErr = "Connection closed while waiting for C-STORE response"

\* The channel was closed while the call waited, with no event in it.
C22_Witness ==
    /\ uPc = "done"
    /\ ~PreCheckFails(uIn)
    /\ Len(uTaken) = 0
    /\ upcallCh.closed
    /\ uErr = "Connection closed while waiting for C-STORE response"
    /\ downcallCh[1].data = <<187, 204>>

-----------------------------------------------------------------------------
(* Properties of the sample server's callbacks (SpecFind, SpecMove) *)

\* The results onCFind makes of matches, in their order.
FindResultsOf(matches) == [i \in 1..Len(matches) |-> CFindResult(matches[i].elems, "")]

\* C12: the producer of the C-FIND result sequence closes it, once, after it has
\* sent every result, and the consumer that keeps receiving gets the results of
\* the N matches in their order and then the end of the sequence (none and then
\* the end for no match), for N up to more than the buffer holds.
C12_FindResultsThenClosedOnce ==
    /\ [](rCh.closes <= 1)
    /\ [](rCh.closes = 1 => (rErr # "" \/ rIdx = Len(rMatches)))
    /\ <>[]( /\ rCh.closes = 1
             /\ rEnd
             /\ rErr = "" => rRecv = FindResultsOf(rMatches) )

\* The results the producer has sent so far, in the order it sent them.
SentResults == rRecv \o rCh.q

\* C13: when findMatchingFiles returned N >= 1 matches, the k-th result of the
\* C-MOVE/C-GET sequence has Remaining = N - k (N-1 on the first, 0 on the
\* last), whether or not reading its file failed, and the sequence is closed
\* only after the result with Remaining 0, once.
C13_RemainingCountsDownToZero ==
    (rPc \in {"loop", "done"} /\ rErr = "" /\ Len(rMatches) >= 1) =>
        /\ Len(SentResults) = rIdx
        /\ \A k \in 1..Len(SentResults) :
            /\ SentResults[k].Remaining = Len(rMatches) - k
            /\ SentResults[k].Path = rMatches[k].path
            /\ (SentResults[k].Err # "") = (rMatches[k].path \in rIn.unreadable)
        /\ rCh.closes <= 1
        /\ rCh.closes = 1 =>
            (rPc = "done" /\ rIdx = Len(rMatches) /\ SentResults[rIdx].Remaining = 0)
        /\ rPc = "done" => rCh.closes = 1
        /\ rEnd => Len(rRecv) = Len(rMatches)

\* The consumer has the whole sequence of two or more matches, one of a file
\* that could not be read, after a file that did not match.
C13_Witness ==
    /\ rEnd
    /\ Len(rRecv) >= 2
    /\ Len(rRecv) < rIn.files
    /\ rRecv[1].Remaining = Len(rRecv) - 1
    /\ rRecv[1].Err # ""
    /\ rRecv[Len(rRecv)].Remaining = 0

\* Every PDV of the message in flight is on one context.
FedOneContext == \A i \in 1..Len(aFed) : aFed[i].ContextID = aFed[1].ContextID

\* C18: in one message in flight Last is accepted at most once on the command
\* side and at most once on the data side: the second Last fragment of a side
\* fails the loop's assertion, and no emitted message holds two.
C18_SecondLastIsRejected ==
    /\ (FedOneContext /\ (FedLasts(aFed, TRUE) > 1 \/ FedLasts(aFed, FALSE) > 1)) =>
            aRes.kind = "panic"
    /\ aRes.kind = "msg" => (FedLasts(aFed, TRUE) = 1 /\ FedLasts(aFed, FALSE) <= 1)

\* A second Last data fragment arrives while the command is still incomplete.
C18_Witness ==
    /\ aRes.kind = "panic"
    /\ FedOneContext
    /\ Len(aFed) = 3
    /\ FedLasts(aFed, FALSE) = 2
    /\ FedLasts(aFed, TRUE) = 0
    /\ Len(aPdu) = 1

\* C19: in every emitted message the command fragments precede the data
\* fragments: no data PDV of the message was accepted before the command's
\* Last fragment, and no command PDV after a data PDV.
C19_CommandPrecedesData ==
    aRes.kind = "msg" =>
        \A i, j \in 1..Len(aFed) : (i < j /\ ~aFed[i].Command) => ~aFed[j].Command

\* The history is a framing: on each side, the fragment with Last is the last
\* fragment of the side.
LastIsLast(fed) == \A i \in 1..Len(fed) : fed[i].Last => i = Len(fed)
FedFramed == LastIsLast(FedOf(aFed, TRUE)) /\ LastIsLast(FedOf(aFed, FALSE))

\* C20: reassembly inverts framing: for a message split into command PDVs and
\* data PDVs over any P-DATA-TFs of one context, the emitted command is the
\* decoding of the command PDVs' values concatenated in arrival order, and the
\* emitted dataBytes are the data PDVs' values concatenated in arrival order.
C20_ReassemblyInvertsFraming ==
    (aRes.kind = "msg" /\ FedFramed) =>
        /\ FedOneContext
        /\ aRes.command = DecodeDIMSEMessage(FedBytes(FedOf(aFed, TRUE))).msg
        /\ aRes.dataBytes = FedBytes(FedOf(aFed, FALSE))

\* A command in two PDVs and a data set in two, over more than one P-DATA-TF.
C20_Witness ==
    /\ aRes.kind = "msg"
    /\ FedFramed
    /\ Len(FedOf(aFed, TRUE)) = 2
    /\ Len(FedOf(aFed, FALSE)) = 2
    /\ Len(aPdu) < Len(aFed)
    /\ aRes.dataBytes = <<170, 187, 204>>
    /\ aRes.command.type = "C_STORE_RQ"

\* C21: a message is emitted only with the abstract syntax that the context
\* map gives its contextID; a completed message whose contextID the map does
\* not hold makes addPDataTF return an error, not a message with an empty
\* syntax name.
C21_EmittedWithMappedSyntax ==
    /\ aRes.kind = "msg" =>
            /\ aFed[1].ContextID \in DOMAIN contextIDMap
            /\ aRes.syntaxName = contextIDMap[aFed[1].ContextID]
    /\ (FedWellFormed /\ FedComplete /\ aFed[1].ContextID \notin DOMAIN contextIDMap) =>
            aRes.kind = "err"

-----------------------------------------------------------------------------
(* Properties of the association (SpecAssoc, SpecFaults, SpecShutdown, SpecTable) *)

\* A state machine has something to react to; the client has a step to take.
MachineRunnable(side) ==
    \/ mEnded[side] = "" /\ Len(mWire[side]) > 0
    \/ Len(mDown[side]) > 0
ClientRunnable ==
    \/ mPc \in {"connect", "cstore", "release"}
    \/ mPc \in {"connecting", "storing"} /\ (Len(mUp.q) > 0 \/ mUp.closed)
    \/ mPc = "releasing" /\ mState["scu"] = "Sta1" /\ mEnded["scu"] # ""
\* Neither state machine nor the client can take a step.
Settled == ~ClientRunnable /\ \A side \in Sides : ~MachineRunnable(side)

\* runClient has returned without an error from any call.
CleanReturn ==
    /\ mPc = "end"
    /\ mClient.connect = ""
    /\ mClient.cstore = ""
    /\ mClient.release = ""
    /\ mState["scu"] = "Sta1"

\* C14: with no fault injected, a session of Connect, one C-STORE answered
\* Success, and Release ends with no error from any of the three calls and the
\* SCU in Sta1; the session does not stop before that, and once nothing is
\* left to do the SCP is in Sta1 as well.
C14_NoFaultSessionEndsClean ==
    /\ mPc = "end" => CleanReturn
    /\ Settled => (CleanReturn /\ mState["scp"] = "Sta1")

C14_Witness ==
    /\ Settled
    /\ CleanReturn
    /\ mState["scp"] = "Sta1"
    /\ mEnded["scu"] = "AR-3"
    /\ mEnded["scp"] = "AR-5"
    /\ Len(BodyBytes(mClient.request)) = 2

\* The fault injector or a timer has a step to take.
FaultRunnable(side) ==
    \/ /\ Len(mFaults[side]) > 0
       /\ \/ Head(mFaults[side]) = "delay"
          \/ Head(mFaults[side]) = "abort" /\ mEnded[side] = "" /\ mState[side] # "Sta1"
    \/ mEnded[side] = "" /\ mState[side] \in {"Sta2", "Sta13"} /\ Quiet
\* Nothing can take a step any more.
Stuck == Settled /\ \A side \in Sides : ~FaultRunnable(side)

\* C15: under every scripted fault sequence on both sides, Connect, C-STORE
\* and Release each return: the session never stops before runClient's end,
\* and a C-STORE waiting for its response has returned once the association
\* is aborted or closed.
C15_EveryCallReturns ==
    /\ Stuck => mPc = "end"
    /\ (mPc = "storing" /\ mUp.closed /\ Len(mUp.q) = 0) => ENABLED ClientCStoreReturns

-----------------------------------------------------------------------------
(* Properties of the state guarded by server.mu (SpecLock) *)

\* the places from which a callback's next step reads or writes ss.pathSeq or
\* ss.datasets
Guarded == {"increment", "path", "register", "assigning", "range"}

\* the callbacks that are onCStore and have computed their path
Stored == {g \in Callers : kKind[g] = "store" /\ kPath[g] # NoPath}

\* C23: in the sample server, ss.pathSeq and ss.datasets are read and written
\* only by the callback that holds ss.mu; whatever the interleaving of the
\* C-STORE, C-FIND and C-MOVE callbacks, no two onCStore calls compute the same
\* path (so os.Create is never called twice on one path), and no iteration of
\* findMatchingFiles' range loop runs while onCStore is assigning to the map.
C23_SharedStateUnderMutex ==
    /\ \A g \in Callers : kPc[g] \in Guarded => kMu = g
    /\ \A g, h \in Stored : g # h => kPath[g] # kPath[h]
    /\ \A i, j \in 1..Len(kCreated) : i # j => kCreated[i] # kCreated[j]
    /\ ~kTorn
    /\ Assigning => \A g \in Callers : kPc[g] # "range"

\* one onCStore has stored its file, a second one is assigning to the map, and
\* a findMatchingFiles is waiting for the mutex
C23_Witness ==
    \E g, h, f \in Callers :
        /\ kKind[g] = "store" /\ kPc[g] = "done" /\ kPath[g] \in kDatasets
        /\ kKind[h] = "store" /\ kPc[h] = "assigning" /\ kPath[h] # kPath[g]
        /\ kKind[f] # "store" /\ kPc[f] = "lock"

=========================================================================
